---------------------------- MODULE Spec2Model ----------------------------
(***************************************************************************)
(* Logic-simulator definition-file front end (3rd/GF2): the Scanner of     *)
(* scanner.py and the Parser of parse.py, with the name table, the device  *)
(* store, the network and the monitors they call.                          *)
(*                                                                         *)
(* A source text is a sequence of one-character strings.  The scanner is   *)
(* modelled character by character (advance, skip_spaces, skip_comments,   *)
(* get_name, get_number, get_symbol); the parser is a state machine whose  *)
(* control points are its calls of get_symbol: one action is the call      *)
(* itself, and for every call site one action runs the parser's code from  *)
(* the symbol returned there up to the next call, a return or a raise.     *)
(***************************************************************************)
EXTENDS Integers, Sequences, FiniteSets, TLC

VARIABLES
    file,                 \* the definition file's text (never written)
    scanner,              \* Scanner: current_character, current_line, current_position, f (read offset)
    names,                \* Names.name_string_list: id n is names[n + 1]
    devices_list,         \* Devices.devices_list
    monitors_dictionary,  \* Monitors.monitors_dictionary: its (device_id, output_id) keys
    parser,               \* Parser: error_count, LINE, POSITION, MISSING
    local,                \* local variables of the active parser functions
    symbol,               \* the Symbol the last get_symbol call returned
    calls,                \* history: the calls made to the device store, network and monitors
    pc,                   \* control point: the get_symbol call the parser has reached
    in_get_symbol,        \* TRUE while the call at pc has not returned its symbol
    outcome               \* how the run ended: returned value or raised exception

vars == <<file, scanner, names, devices_list, monitors_dictionary, parser,
          local, symbol, calls, pc, in_get_symbol, outcome>>

----------------------------------------------------------------------------
(* Python's None, in the integer-valued slots (a symbol's type and id, a   *)
(* port id, a line_check argument).  Every id and type of the program is   *)
(* >= 0.                                                                   *)
None == -1

(* Symbol types, scanner.py line 68-70: range(9).                          *)
COMMA == 0
SEMICOLON == 1
DOT == 2
ARROW == 3
EQUALS == 4
KEYWORD == 5
NUMBER == 6
NAME == 7
EOF == 8

(* Error types, scanner.py line 72-76: range(13).                          *)
NO_NUMBER == 0
NO_ARROW == 1
UNKNOWN_SYM == 2
NO_NAME == 3
NO_EQUAL == 4
NO_SEMICOLON == 5
NO_COMMA == 6
NO_DOT == 7
INCORRECT_KEYWORD == 8
NO_KEYWORD == 9
INVALID_VARIABLE == 10
NO_CONNECT == 11
NO_EOF == 12

error_type_list == 0 .. 12

(* Parser.SEMANTIC is the string "semantic error": a value that is no      *)
(* integer, so it is in no range and equal to no error type or position.   *)
SEMANTIC == -2

----------------------------------------------------------------------------
(* Characters.                                                             *)
Letters == {"A", "B", "C", "D", "E", "F", "G", "H", "I", "J", "K", "L", "M",
            "N", "O", "P", "Q", "R", "S", "T", "U", "V", "W", "X", "Y", "Z"}

Digits == {"0", "1", "2", "3", "4", "5", "6", "7", "8", "9"}

isalpha(c) == c \in Letters

isdigit(c) == c \in Digits

isalnum(c) == isalpha(c) \/ isdigit(c)

isspace(c) == c \in {" ", "\n", "\t"}

int(c) ==
    CASE c = "0" -> 0 [] c = "1" -> 1 [] c = "2" -> 2 [] c = "3" -> 3
      [] c = "4" -> 4 [] c = "5" -> 5 [] c = "6" -> 6 [] c = "7" -> 7
      [] c = "8" -> 8 [] c = "9" -> 9

(* str(n) for 0 <= n <= 99, as a sequence of characters.                   *)
DigitChar(d) ==
    CASE d = 0 -> "0" [] d = 1 -> "1" [] d = 2 -> "2" [] d = 3 -> "3"
      [] d = 4 -> "4" [] d = 5 -> "5" [] d = 6 -> "6" [] d = 7 -> "7"
      [] d = 8 -> "8" [] d = 9 -> "9"

str(n) == IF n < 10 THEN <<DigitChar(n)>>
          ELSE <<DigitChar(n \div 10), DigitChar(n % 10)>>

RECURSIVE Cat(_)
Cat(ss) == IF ss = <<>> THEN <<>> ELSE Head(ss) \o Cat(Tail(ss))

----------------------------------------------------------------------------
(* Reserved words.                                                         *)
sDEVICES == <<"D", "E", "V", "I", "C", "E", "S">>
sCONNECT == <<"C", "O", "N", "N", "E", "C", "T">>
sMONITOR == <<"M", "O", "N", "I", "T", "O", "R">>
sEND == <<"E", "N", "D">>

keywords_list == <<sDEVICES, sCONNECT, sMONITOR, sEND>>

sAND == <<"A", "N", "D">>
sOR == <<"O", "R">>
sNAND == <<"N", "A", "N", "D">>
sNOR == <<"N", "O", "R">>
sXOR == <<"X", "O", "R">>
sCLOCK == <<"C", "L", "O", "C", "K">>
sSWITCH == <<"S", "W", "I", "T", "C", "H">>
sDTYPE == <<"D", "T", "Y", "P", "E">>
sSIGGEN == <<"S", "I", "G", "G", "E", "N">>
sCLK == <<"C", "L", "K">>
sSET == <<"S", "E", "T">>
sCLEAR == <<"C", "L", "E", "A", "R">>
sDATA == <<"D", "A", "T", "A">>
sQ == <<"Q">>
sQBAR == <<"Q", "B", "A", "R">>

gate_strings == <<sAND, sOR, sNAND, sNOR, sXOR>>
device_strings == <<sCLOCK, sSWITCH, sDTYPE, sSIGGEN>>
dtype_inputs == <<sCLK, sSET, sCLEAR, sDATA>>
dtype_outputs == <<sQ, sQBAR>>

Range(s) == {s[i] : i \in DOMAIN s}

----------------------------------------------------------------------------
(* Names (names.py is not among the sources; its behaviour is the one      *)
(* test_names.py fixes: ids in first-seen order, the same string the same  *)
(* id, get_name_string None for an absent id).                             *)
IndexOf(nm, name_string) == CHOOSE i \in DOMAIN nm : nm[i] = name_string

lookup1(nm, name_string) ==
    IF \E i \in DOMAIN nm : nm[i] = name_string
    THEN [names |-> nm, id |-> IndexOf(nm, name_string) - 1]
    ELSE [names |-> Append(nm, name_string), id |-> Len(nm)]

RECURSIVE lookup(_, _)
lookup(nm, name_string_list) ==
    IF name_string_list = <<>> THEN nm
    ELSE lookup(lookup1(nm, Head(name_string_list)).names, Tail(name_string_list))

query(nm, name_string) ==
    IF \E i \in DOMAIN nm : nm[i] = name_string
    THEN IndexOf(nm, name_string) - 1 ELSE None

(* get_name_string: the string of a known id; absent ids give Python None, *)
(* rendered here as the empty sequence's absence flag.                     *)
has_name(nm, name_id) == name_id >= 0 /\ name_id < Len(nm)


----------------------------------------------------------------------------
(* Scanner.                                                                *)

(* f.read(1) at read offset f: the next character, or "" at end of file.   *)
read1(sc) == IF sc.f < Len(file) THEN file[sc.f + 1] ELSE ""

advance(sc) ==
    LET c == read1(sc)
    IN  [current_character |-> c,
         f |-> IF sc.f < Len(file) THEN sc.f + 1 ELSE sc.f,
         current_line |-> IF c = "\n" THEN sc.current_line + 1 ELSE sc.current_line,
         current_position |-> IF c = "\n" THEN 0 ELSE sc.current_position + 1]

RECURSIVE skip_spaces(_)
skip_spaces(sc) ==
    IF isspace(sc.current_character) THEN skip_spaces(advance(sc)) ELSE sc

(* n calls of advance in a row, none of them at the end of the file: the   *)
(* read offset moves on by n, every "\n" read starts a line.               *)
advance_by(sc, n) ==
    LET newlines == {k \in sc.f + 1 .. sc.f + n : file[k] = "\n"}
    IN  IF n = 0 THEN sc
        ELSE [current_character |-> file[sc.f + n],
              f |-> sc.f + n,
              current_line |-> sc.current_line + Cardinality(newlines),
              current_position |->
                  IF newlines = {} THEN sc.current_position + n
                  ELSE sc.f + n - (CHOOSE m \in newlines : \A k \in newlines : k <= m)]

(* The offsets from the current character on at which "//" stands.         *)
closing_pairs(sc) ==
    {k \in sc.f .. Len(file) - 1 : k >= 1 /\ file[k] = "/" /\ file[k + 1] = "/"}

(* A loop that takes the first "/" of the comment for its end.             *)
comment_loop_single_slash(sc) ==
    IF sc.current_character = "" THEN [scanner |-> sc, closed |-> FALSE]
    ELSE LET slashes == {k \in sc.f .. Len(file) : k >= 1 /\ file[k] = "/"}
         IN  IF slashes = {}
             THEN [scanner |-> advance(advance_by(sc, Len(file) - sc.f)), closed |-> FALSE]
             ELSE LET k == CHOOSE k \in slashes : \A m \in slashes : k <= m
                  IN  [scanner |-> skip_spaces(advance(advance_by(sc, k - sc.f))),
                       closed |-> TRUE]

(* The while loop of skip_comments (line 171-179), entered after the       *)
(* opening "//": it advances up to the first "//" and leaves after it; at  *)
(* the end of the file ("" is never "/") it advances for ever, and         *)
(* closed = FALSE hands back the scanner as it is when the loop first sees *)
(* the end of the file.                                                    *)
comment_loop(sc) ==
    IF sc.current_character = "" THEN [scanner |-> sc, closed |-> FALSE]
    ELSE IF closing_pairs(sc) = {}
    THEN [scanner |-> advance(advance_by(sc, Len(file) - sc.f)), closed |-> FALSE]
    ELSE LET k == CHOOSE k \in closing_pairs(sc) : \A m \in closing_pairs(sc) : k <= m
         IN  [scanner |-> skip_spaces(advance(advance_by(sc, k + 1 - sc.f))),
              closed |-> TRUE]

skip_comments(sc) ==
    IF sc.current_character = "/"
    THEN LET s1 == advance(sc)
         IN  IF s1.current_character = "/"
             THEN comment_loop(advance(s1))
             ELSE [scanner |-> s1, closed |-> TRUE]
    ELSE [scanner |-> sc, closed |-> TRUE]

RECURSIVE get_name_from(_, _)
get_name_from(sc, name) ==
    IF isalnum(sc.current_character)
    THEN get_name_from(advance(sc), Append(name, sc.current_character))
    ELSE [scanner |-> sc, name |-> name]

get_name(sc) == get_name_from(sc, <<>>)

RECURSIVE get_number_from(_, _)
get_number_from(sc, number) ==
    IF isdigit(sc.current_character)
    THEN get_number_from(advance(sc), 10 * number + int(sc.current_character))
    ELSE [scanner |-> sc, number |-> number]

get_number(sc) == get_number_from(sc, 0)

Symbol(type, id, sc) ==
    [type |-> type, id |-> id,
     line_number |-> sc.current_line, position |-> sc.current_position]

(* The result of one get_symbol call: how it ended (status "ok", or        *)
(* "SyntaxError", or "loops" when skip_comments never returns), the        *)
(* scanner and the name table it leaves, the symbol it returns and, for a  *)
(* name, the string get_name collected.                                    *)
Scanned(status, sc, nm, type, id, name_string) ==
    [status |-> status, scanner |-> sc, names |-> nm,
     symbol |-> Symbol(type, id, sc), name_string |-> name_string]

punctuation(c) ==
    CASE c = "=" -> EQUALS [] c = "." -> DOT [] c = "," -> COMMA [] c = ";" -> SEMICOLON

(* A get_symbol that tells no keyword from a name.                         *)
name_symbol_all_names(g, l) == Scanned("ok", g.scanner, l.names, NAME, l.id, g.name)

(* Line 98-104: g is what get_name returned, l what names.lookup did.      *)
name_symbol(g, l) ==
    Scanned("ok", g.scanner, l.names,
            IF g.name \in Range(keywords_list) THEN KEYWORD ELSE NAME, l.id, g.name)

(* Line 106-108: g is what get_number returned.                            *)
number_symbol(g, nm) == Scanned("ok", g.scanner, nm, NUMBER, g.number, <<>>)

(* Line 126-134: s1 is the scanner after the advance over "-".             *)
arrow_symbol(s1, nm) ==
    IF s1.current_character = ">"
    THEN Scanned("ok", advance(s1), nm, ARROW, None, <<>>)
    ELSE Scanned("SyntaxError", s1, nm, None, None, <<>>)

(* A get_symbol for which the end of the file is EOF from the start.       *)
symbol_at_EOF_from_start(sc, closed, nm) ==
    IF ~closed THEN Scanned("loops", sc, nm, None, None, <<>>)
    ELSE IF isalpha(sc.current_character)
    THEN name_symbol(get_name(sc), lookup1(nm, get_name(sc).name))
    ELSE IF isdigit(sc.current_character) THEN number_symbol(get_number(sc), nm)
    ELSE IF sc.current_character \in {"=", ".", ",", ";"}
    THEN Scanned("ok", advance(sc), nm, punctuation(sc.current_character), None, <<>>)
    ELSE IF sc.current_character = "-" THEN arrow_symbol(advance(sc), nm)
    ELSE IF sc.current_character = "" THEN Scanned("ok", sc, nm, EOF, None, <<>>)
    ELSE IF sc.current_character = "\n"
    THEN Scanned("ok", advance(sc), nm, None, None, <<>>)
    ELSE Scanned("SyntaxError", sc, nm, None, None, <<>>)

(* Line 98-153, on the scanner sc as skip_spaces and skip_comments left    *)
(* it (closed = FALSE: skip_comments does not return).                     *)
symbol_at(sc, closed, nm) ==
    IF ~closed THEN Scanned("loops", sc, nm, None, None, <<>>)
    ELSE IF isalpha(sc.current_character)
    THEN name_symbol(get_name(sc), lookup1(nm, get_name(sc).name))
    ELSE IF isdigit(sc.current_character) THEN number_symbol(get_number(sc), nm)
    ELSE IF sc.current_character \in {"=", ".", ",", ";"}
    THEN Scanned("ok", advance(sc), nm, punctuation(sc.current_character), None, <<>>)
    ELSE IF sc.current_character = "-" THEN arrow_symbol(advance(sc), nm)
    ELSE IF sc.current_character = ""
    THEN IF sc.current_line = 0 /\ sc.current_position = 0
         THEN Scanned("ok", advance(sc), nm, None, None, <<>>)
         ELSE Scanned("ok", sc, nm, EOF, None, <<>>)
    ELSE IF sc.current_character = "\n"
    THEN Scanned("ok", advance(sc), nm, None, None, <<>>)
    ELSE Scanned("SyntaxError", sc, nm, None, None, <<>>)

skipped(cm, nm) == symbol_at(cm.scanner, cm.closed, nm)

get_symbol(sc0, nm) == skipped(skip_comments(skip_spaces(sc0)), nm)

(* Scanner.__init__, line 83-88.                                           *)
NewScanner ==
    [current_character |-> "", current_line |-> 0, current_position |-> 0, f |-> 0]

(* The number of lines file.read().split('\n') yields.                     *)
NumLines == 1 + Cardinality({i \in DOMAIN file : file[i] = "\n"})

(* error_location(error_type, line_check), line 212-238: TRUE when it      *)
(* prints, FALSE when the line it indexes does not exist (IndexError).     *)
error_location(sc, error_type, line_check) ==
    LET lc == IF line_check # None /\ line_check # sc.current_line
              THEN line_check ELSE sc.current_line
        index == IF error_type = NO_CONNECT THEN sc.current_line - 1 ELSE lc
    IN  IF error_type = None \/ error_type >= 0
        THEN index < NumLines /\ index >= -NumLines
        ELSE TRUE

(* A display_error that only prints "Incorrect Keyword".                   *)
display_error_keyword_printed(error_type) ==
    error_type \in {NO_NUMBER, INVALID_VARIABLE, NO_CONNECT,
                    NO_NAME, NO_EQUAL, NO_SEMICOLON, NO_COMMA}

(* display_error(error_type), line 240-268: TRUE when it raises            *)
(* SyntaxError, FALSE when it only prints.                                 *)
display_error(error_type) ==
    error_type \in {NO_NUMBER, INCORRECT_KEYWORD, INVALID_VARIABLE, NO_CONNECT,
                    NO_NAME, NO_EQUAL, NO_SEMICOLON, NO_COMMA}

----------------------------------------------------------------------------
(* Devices, Network, Monitors: the collaborators the parser calls.  Their  *)
(* modules are not among the sources; the operators below follow the       *)
(* interfaces the parser uses and the outcomes test_parser.py asserts.     *)

(* The name table once Devices.__init__ has interned its strings (the      *)
(* fixture of test_parser.py builds Devices before the Scanner).           *)
DevicesNames ==
    lookup(<<>>, gate_strings \o device_strings \o dtype_inputs \o dtype_outputs)

AND == query(DevicesNames, sAND)
OR == query(DevicesNames, sOR)
NAND == query(DevicesNames, sNAND)
NOR == query(DevicesNames, sNOR)
XOR == query(DevicesNames, sXOR)
CLOCK == query(DevicesNames, sCLOCK)
SWITCH == query(DevicesNames, sSWITCH)
D_TYPE == query(DevicesNames, sDTYPE)
SIGGEN == query(DevicesNames, sSIGGEN)

gate_types == {AND, OR, NAND, NOR, XOR}
device_types == {CLOCK, SWITCH, D_TYPE, SIGGEN}
dtype_input_ids == {query(DevicesNames, dtype_inputs[i]) : i \in DOMAIN dtype_inputs}
dtype_output_ids == {query(DevicesNames, dtype_outputs[i]) : i \in DOMAIN dtype_outputs}
max_gate_inputs == 16

(* Outcome codes (names.unique_error_codes: distinct integers).            *)
network_NO_ERROR == 6
network_INPUT_TO_INPUT == 7
network_OUTPUT_TO_OUTPUT == 8
network_INPUT_CONNECTED == 9
network_PORT_ABSENT == 10
network_DEVICE_ABSENT == 11
monitors_NO_ERROR == 12
monitors_NOT_OUTPUT == 13
monitors_MONITOR_PRESENT == 14

(* An input that is not connected holds None; a connected one holds the    *)
(* (device_id, port_id) pair of the output that drives it.                 *)
Unconnected == <<None, None>>

has_device(dl, device_id) == \E i \in DOMAIN dl : dl[i].device_id = device_id

DeviceIndex(dl, device_id) == CHOOSE i \in DOMAIN dl : dl[i].device_id = device_id

get_device(dl, device_id) == dl[DeviceIndex(dl, device_id)]

find_devices(dl, device_kind) ==
    {dl[i].device_id : i \in {j \in DOMAIN dl :
                               device_kind = None \/ dl[j].device_kind = device_kind}}

Device(device_id, device_kind, input_ids, output_ids) ==
    [device_id |-> device_id, device_kind |-> device_kind,
     inputs |-> [p \in input_ids |-> Unconnected], outputs |-> output_ids]

(* The names "I1" .. "In" a gate's inputs receive.                         *)
input_names(no_of_inputs) == [n \in 1 .. no_of_inputs |-> <<"I">> \o str(n)]

(* make_device(device_id, device_kind, device_property, device_property_2) *)
(* on the pair (name table, device list): the device is added when the     *)
(* kind and its parameters are valid and the id is free; otherwise nothing *)
(* changes (an error code is returned, which the parser does not read).    *)
make_device(nm, dl, device_id, device_kind, p1, p2) ==
    LET add(d) == [names |-> nm, devices_list |-> Append(dl, d)]
        same   == [names |-> nm, devices_list |-> dl]
        gate(n) ==
            LET nm2 == lookup(nm, input_names(n))
            IN  [names |-> nm2,
                 devices_list |-> Append(dl,
                     Device(device_id, device_kind,
                            {query(nm2, input_names(n)[k]) : k \in 1 .. n}, {None}))]
    IN  IF has_device(dl, device_id) THEN same
        ELSE IF device_kind = SWITCH THEN
            IF p1 \in {0, 1} /\ p2 = None
            THEN add(Device(device_id, SWITCH, {}, {None})) ELSE same
        ELSE IF device_kind = CLOCK THEN
            IF p1 # None /\ p1 > 0 /\ p2 = None
            THEN add(Device(device_id, CLOCK, {}, {None})) ELSE same
        ELSE IF device_kind = XOR THEN
            IF p1 = None /\ p2 = None THEN gate(2) ELSE same
        ELSE IF device_kind \in gate_types THEN
            IF p1 # None /\ p1 >= 1 /\ p1 <= max_gate_inputs /\ p2 = None
            THEN gate(p1) ELSE same
        ELSE IF device_kind = D_TYPE THEN
            IF p1 = None /\ p2 = None
            THEN add(Device(device_id, D_TYPE, dtype_input_ids, dtype_output_ids))
            ELSE same
        ELSE IF device_kind = SIGGEN THEN
            IF p1 # None /\ p2 # None
            THEN add(Device(device_id, SIGGEN, {}, {None})) ELSE same
        ELSE same

(* make_switch(device_id, initial_state), used by set_ground.              *)
make_switch(dl, device_id) == Append(dl, Device(device_id, SWITCH, {}, {None}))

(* make_connection(first_device_id, first_port_id, second_device_id,       *)
(* second_port_id): the outcome code and the device list afterwards.       *)
make_connection(dl, d1, p1, d2, p2) ==
    LET code(c) == [error_type |-> c, devices_list |-> dl]
        wire(into, port, from, out) ==
            [error_type |-> network_NO_ERROR,
             devices_list |->
                 [dl EXCEPT ![DeviceIndex(dl, into)].inputs[port] = <<from, out>>]]
    IN  IF ~has_device(dl, d1) \/ ~has_device(dl, d2) THEN code(network_DEVICE_ABSENT)
        ELSE LET first == get_device(dl, d1)
                 second == get_device(dl, d2)
             IN  IF p1 \in DOMAIN first.inputs THEN
                     IF first.inputs[p1] # Unconnected THEN code(network_INPUT_CONNECTED)
                     ELSE IF p2 \in DOMAIN second.inputs THEN code(network_INPUT_TO_INPUT)
                     ELSE IF p2 \in second.outputs THEN wire(d1, p1, d2, p2)
                     ELSE code(network_PORT_ABSENT)
                 ELSE IF p1 \in first.outputs THEN
                     IF p2 \in second.outputs THEN code(network_OUTPUT_TO_OUTPUT)
                     ELSE IF p2 \in DOMAIN second.inputs THEN
                         IF second.inputs[p2] # Unconnected
                         THEN code(network_INPUT_CONNECTED)
                         ELSE wire(d2, p2, d1, p1)
                     ELSE code(network_PORT_ABSENT)
                 ELSE code(network_PORT_ABSENT)

(* monitors.make_monitor(device_id, output_id): the outcome code and the   *)
(* monitored (device, output) pairs afterwards.                            *)
make_monitor_call(dl, md, device_id, output_id) ==
    IF ~has_device(dl, device_id)
    THEN [error_type |-> network_DEVICE_ABSENT, monitors_dictionary |-> md]
    ELSE IF output_id \notin get_device(dl, device_id).outputs
    THEN [error_type |-> monitors_NOT_OUTPUT, monitors_dictionary |-> md]
    ELSE IF <<device_id, output_id>> \in md
    THEN [error_type |-> monitors_MONITOR_PRESENT, monitors_dictionary |-> md]
    ELSE [error_type |-> monitors_NO_ERROR,
          monitors_dictionary |-> md \cup {<<device_id, output_id>>}]

----------------------------------------------------------------------------
(* The program state as one record, so that the parser's code reads as     *)
(* functions from state to state.                                          *)
Now ==
    [scanner |-> scanner, names |-> names, devices_list |-> devices_list,
     monitors_dictionary |-> monitors_dictionary, parser |-> parser,
     local |-> local, symbol |-> symbol, calls |-> calls, pc |-> pc,
     outcome |-> outcome]

Becomes(s) ==
    /\ scanner' = s.scanner
    /\ names' = s.names
    /\ devices_list' = s.devices_list
    /\ monitors_dictionary' = s.monitors_dictionary
    /\ parser' = s.parser
    /\ local' = s.local
    /\ symbol' = s.symbol
    /\ calls' = s.calls
    /\ pc' = s.pc
    /\ in_get_symbol' = (s.pc # "done")
    /\ outcome' = s.outcome
    /\ file' = file

(* Python's False: in comparisons it is the integer 0.                     *)
False == 0

(* A local variable that has not been assigned.                            *)
Unbound == -3

Running == [kind |-> "running", exception |-> "", value |-> None, line |-> 0, of |-> ""]

(* raise: the run ends with the exception, raised at the given source line *)
(* of parse.py.                                                            *)
Raise(s, exception, line) ==
    [s EXCEPT !.pc = "done",
              !.outcome = [kind |-> "raised", exception |-> exception,
                           value |-> None, line |-> line, of |-> "parse.py"]]

(* return from parse_network.                                              *)
Return(s, value, line) ==
    [s EXCEPT !.pc = "done",
              !.outcome = [kind |-> "returned", exception |-> "",
                           value |-> value, line |-> line, of |-> "parse.py"]]

(* A loop that repeats for ever without reading a token or changing a      *)
(* variable.                                                               *)
Diverge(s, line) ==
    [s EXCEPT !.pc = "done",
              !.outcome = [kind |-> "loops", exception |-> "",
                           value |-> None, line |-> line, of |-> "parse.py"]]

(* Sequencing: the rest of the code runs unless the run has ended.         *)
Then(s, rest(_)) == IF s.pc = "done" THEN s ELSE rest(s)

Goto(s, label) == [s EXCEPT !.pc = label]

Count(s) == [s EXCEPT !.parser.error_count = @ + 1]

SetLINE(s) == [s EXCEPT !.parser.LINE = s.scanner.current_line]

Log(s, op, args, result) ==
    [s EXCEPT !.calls = Append(@, [op |-> op, args |-> args, result |-> result])]

(* The ids Scanner.__init__ line 80-81 received for the four keywords.     *)
DEVICES_ID == query(names, sDEVICES)
CONNECT_ID == query(names, sCONNECT)
MONITOR_ID == query(names, sMONITOR)
END_ID == query(names, sEND)

(* call_error(error_type, line_check), line 631-651.                       *)
call_error(s, error_type, line_check, line) ==
    LET sc == s.scanner
        located ==
            IF error_type = INCORRECT_KEYWORD
            THEN IF error_location(sc, error_type, line_check) THEN "ok" ELSE "IndexError"
            ELSE IF error_type = NO_CONNECT
            THEN IF error_location(sc, error_type, None) THEN "ok" ELSE "IndexError"
            ELSE IF error_type \in error_type_list
            THEN IF error_location(sc, None, line_check) THEN "ok" ELSE "IndexError"
            ELSE IF error_type = SEMANTIC
            THEN IF error_location(sc, None, line_check) THEN "ok" ELSE "IndexError"
            ELSE IF error_type = s.parser.POSITION
            THEN IF error_location(sc, error_type - 50, line_check)
                 THEN "ok" ELSE "IndexError"
            ELSE "AttributeError"
    IN  IF located # "ok" THEN Raise(s, located, line)
        ELSE IF error_type = s.parser.POSITION THEN s
        ELSE IF error_type \in error_type_list /\ display_error(error_type)
        THEN Raise(s, "SyntaxError", line)
        ELSE s

----------------------------------------------------------------------------
(* parse_network, line 90-145.                                             *)

(* Python string operations on the file text (indices from 0).             *)
occurs_at(word, k) ==
    /\ k >= 0
    /\ k + Len(word) <= Len(file)
    /\ \A j \in 1 .. Len(word) : file[k + j] = word[j]

text_count(word) == Cardinality({k \in 0 .. Len(file) : occurs_at(word, k)})

text_find(word, start) ==
    IF \E k \in start .. Len(file) : occurs_at(word, k)
    THEN CHOOSE k \in start .. Len(file) :
             occurs_at(word, k) /\ \A m \in start .. k - 1 : ~occurs_at(word, m)
    ELSE -1

(* file[k]: negative indices count from the end; out of range raises.      *)
index_ok(k) == k < Len(file) /\ k >= -Len(file)

text_at(k) == IF k >= 0 THEN file[k + 1] ELSE file[Len(file) + k + 1]

(* The for loop of line 102-110 for keyword i, with j iterations left:     *)
(* "found" (break), "missing" (the else clause) or "IndexError".           *)
RECURSIVE keyword_search(_, _, _)
keyword_search(i, j, start) ==
    IF j = 0 THEN "missing"
    ELSE LET ind == text_find(i, start)
         IN  IF ~index_ok(ind - 1) THEN "IndexError"
             ELSE IF text_at(ind - 1) \in {" ", "\n"}
             THEN IF ~index_ok(ind + Len(i)) THEN "IndexError"
                  ELSE IF text_at(ind + Len(i)) \in {" ", "\n"} THEN "found"
                  ELSE keyword_search(i, j - 1, start + ind + 1)
             ELSE keyword_search(i, j - 1, start + ind + 1)

keyword_check(i) ==
    IF text_count(i) > 0 THEN keyword_search(i, text_count(i), 0) ELSE "missing"

(* The pre-scan of line 95-113 over the four keywords from the k-th on:    *)
(* MISSING as the loop leaves it, or the IndexError that ends it.          *)
RECURSIVE prescan(_, _)
prescan(k, missing) ==
    IF k > Len(keywords_list) THEN [status |-> "ok", MISSING |-> missing]
    ELSE LET r == keyword_check(keywords_list[k])
         IN  IF r = "IndexError" THEN [status |-> "IndexError", MISSING |-> missing]
             ELSE prescan(k + 1, IF r = "missing" THEN keywords_list[k] ELSE missing)

(* Line 135-143: the token the monitors section handed back.               *)
pn_end(s) ==
    IF s.symbol.id = END_ID
    THEN IF s.parser.error_count = 0
         THEN Return(s, s.symbol.id, 139)
         ELSE Return(s, False, 141)
    ELSE Then(call_error(s, INCORRECT_KEYWORD, s.parser.LINE + 1, 143),
              LAMBDA t : Diverge(t, 120))

(* Line 131-134.                                                           *)
pn_monitor(s) ==
    IF s.symbol.id = MONITOR_ID
    THEN Goto(s, "sm_device_name")
    ELSE Then(call_error(s, INCORRECT_KEYWORD, s.parser.LINE + 1, 134), pn_end)

(* A pn_connect that enters the connections section whatever token the    *)
(* declarations handed back.                                               *)
pn_connect_unchecked(s) == Goto(s, "sc_first_device_name")

(* Line 127-130.                                                           *)
pn_connect(s) ==
    IF s.symbol.id = CONNECT_ID
    THEN Goto(s, "sc_first_device_name")
    ELSE Then(call_error(s, INCORRECT_KEYWORD, s.parser.LINE + 1, 130), pn_monitor)

(* Line 120-125 and 144-145: the while loop's test on the first keyword.   *)
pn_while(s) ==
    IF s.symbol.type = KEYWORD
    THEN IF s.symbol.id = DEVICES_ID
         THEN Goto(s, "sd_symbol")
         ELSE Then(call_error(s, INCORRECT_KEYWORD, s.parser.LINE, 125), pn_connect)
    ELSE Then(call_error(s, INCORRECT_KEYWORD, s.parser.LINE, 145),
              LAMBDA t : Return(t, None, 145))

(* Line 116-119: a first symbol without a type is read over.               *)
pn_first(s) == IF s.symbol.type = None THEN Goto(s, "pn_keyword_2") ELSE pn_while(s)

(* Line 95-113 with r the outcome of the pre-scan: file[...] out of range  *)
(* ends the run, else the first get_symbol call follows.                   *)
parse_network_prescan(s, r) ==
    IF r.status = "IndexError"
    THEN Raise([s EXCEPT !.parser.MISSING = r.MISSING], "IndexError", 104)
    ELSE Goto([s EXCEPT !.parser.MISSING = r.MISSING], "pn_keyword")

----------------------------------------------------------------------------
(* set_devices, line 147-272.                                              *)

reserved_strings ==
    Range(gate_strings) \cup Range(device_strings) \cup Range(dtype_inputs)
        \cup Range(dtype_outputs) \cup Range(keywords_list)

(* A device_check whose upper limit on gate inputs is one too high.        *)
device_check_one_more_input(device_kind, device_property) ==
    IF device_kind = D_TYPE \/ device_kind = XOR THEN "SyntaxError"
    ELSE IF /\ device_kind \in gate_types /\ device_kind # XOR
            /\ (device_property > max_gate_inputs + 1 \/ device_property < 1)
    THEN "ValueError"
    ELSE IF device_kind = CLOCK /\ device_property < 1 THEN "ValueError"
    ELSE IF device_kind = SWITCH /\ device_property \notin {0, 1} THEN "ValueError"
    ELSE "ok"

(* device_check(device_kind, device_property), line 410-437: "ok" or the   *)
(* exception it raises.                                                    *)
device_check(device_kind, device_property) ==
    IF device_kind = D_TYPE \/ device_kind = XOR THEN "SyntaxError"
    ELSE IF /\ device_kind \in gate_types /\ device_kind # XOR
            /\ (device_property > max_gate_inputs \/ device_property < 1)
    THEN "ValueError"
    ELSE IF device_kind = CLOCK /\ device_property < 1 THEN "ValueError"
    ELSE IF device_kind = SWITCH /\ device_property \notin {0, 1} THEN "ValueError"
    ELSE "ok"

(* A make_device call that passes the kind where the name id belongs.       *)
call_make_device_swapped(s, device_id, device_kind, p1, p2) ==
    LET r == make_device(s.names, s.devices_list, device_kind, device_id, p1, p2)
    IN  Log([s EXCEPT !.names = r.names, !.devices_list = r.devices_list],
            "make_device", <<device_kind, device_id, p1, p2>>, None)

(* self.devices.make_device(...) as the parser calls it: the call is       *)
(* recorded, the name table and the device list take its effect.           *)
call_make_device(s, device_id, device_kind, p1, p2) ==
    LET r == make_device(s.names, s.devices_list, device_id, device_kind, p1, p2)
    IN  Log([s EXCEPT !.names = r.names, !.devices_list = r.devices_list],
            "make_device", <<device_id, device_kind, p1, p2>>, None)

(* Line 152-178: the head of the while loop, on the entry's first symbol.  *)
sd_loop(s) ==
    Then(IF s.symbol.type # NAME THEN call_error(s, NO_NAME, None, 153) ELSE s,
         LAMBDA t :
           LET device_id == t.symbol.id
           IN  IF device_id = None THEN Raise(t, "TypeError", 157)
               ELSE IF ~has_name(t.names, device_id) THEN Raise(t, "IndexError", 157)
               ELSE IF t.names[device_id + 1] \in reserved_strings
               THEN Raise(t, "SyntaxError", 169)
               ELSE Then(IF has_device(t.devices_list, device_id)
                         THEN IF t.parser.MISSING = sCONNECT
                              THEN call_error(t, INCORRECT_KEYWORD, t.parser.LINE + 1, 174)
                              ELSE Raise(t, "SyntaxError", 178)
                         ELSE t,
                         LAMBDA u :
                           Goto([u EXCEPT !.local.device_id = device_id], "sd_equal")))

(* An sd_equal that reports a missing '=' whatever the pre-scan found.     *)
sd_equal_always_NO_EQUAL(s) ==
    Then(IF s.symbol.type # EQUALS THEN call_error(s, NO_EQUAL, None, 187) ELSE s,
         LAMBDA t : Goto(t, "sd_device_kind"))

(* Line 181-187: the symbol after the device name.                         *)
sd_equal(s) ==
    Then(IF s.symbol.type # EQUALS
         THEN IF s.parser.MISSING = sCONNECT
              THEN call_error(s, INCORRECT_KEYWORD, s.parser.LINE + 1, 184)
              ELSE call_error(s, NO_EQUAL, None, 187)
         ELSE s,
         LAMBDA t : Goto(t, "sd_device_kind"))

(* Line 190-201: the device type.                                          *)
sd_device_kind(s) ==
    Then(IF s.symbol.type # NAME THEN call_error(s, NO_NAME, None, 192) ELSE s,
         LAMBDA t :
           LET device_kind == t.symbol.id
           IN  IF device_kind \notin gate_types /\ device_kind \notin device_types
               THEN Raise(t, IF device_kind = None THEN "TypeError" ELSE "SyntaxError", 199)
               ELSE Goto(SetLINE([t EXCEPT !.local.device_kind = device_kind]),
                         "sd_semicolon_check"))

(* Line 238-245 and 262-267: the symbol after a complete entry.            *)
sd_end_check(s) ==
    IF s.symbol.type = KEYWORD THEN pn_connect(s) ELSE sd_loop(s)

(* Line 202-205, 247-272: the symbol after the device type.                *)
sd_semicolon_check(s) ==
    IF s.symbol.type = COMMA THEN Goto(s, "sd_device_property")
    ELSE IF s.symbol.type = SEMICOLON THEN
        IF s.local.device_kind \in {CLOCK, SWITCH, AND, OR, NAND, NOR}
        THEN Raise(s, IF error_location(s.scanner, None, s.parser.LINE)
                      THEN "SyntaxError" ELSE "IndexError", 256)
        ELSE Goto(SetLINE(call_make_device(s, s.local.device_id, s.local.device_kind,
                                           None, None)),
                  "sd_end_check")
    ELSE IF display_error(NO_SEMICOLON) THEN Raise(s, "SyntaxError", 272)
    ELSE sd_loop(s)

(* Line 207-219: the first parameter.                                      *)
sd_device_property(s) ==
    IF s.symbol.type # NUMBER /\ display_error(NO_NUMBER)
    THEN Raise(s, "SyntaxError", 210)
    ELSE LET device_property == s.symbol.id
             device_kind == s.local.device_kind
             checked == device_check(device_kind, device_property)
         IN  IF device_property = None THEN Raise(s, "TypeError", 212)
             ELSE IF checked = "SyntaxError" THEN Raise(s, "SyntaxError", 417)
             ELSE IF checked = "ValueError" THEN Raise(s, "ValueError", 425)
             ELSE IF device_kind # SIGGEN
             THEN Goto(call_make_device(s, s.local.device_id, device_kind,
                                        device_property, None),
                       "sd_semicolon")
             ELSE Goto(SetLINE([s EXCEPT !.local.device_property = device_property]),
                       "sd_comma_check")

(* Line 219-223: the symbol after a signal generator's first parameter.    *)
sd_comma_check(s) ==
    IF s.symbol.type = COMMA THEN Goto(s, "sd_device_property_2")
    ELSE Then(call_error(s, NO_COMMA, s.parser.LINE, 223),
              LAMBDA t : Raise(t, "UnboundLocalError", 224))

(* Line 221-230: a signal generator's second parameter.                    *)
sd_device_property_2(s) ==
    IF s.symbol.type # NUMBER /\ display_error(NO_NUMBER)
    THEN Raise(s, "SyntaxError", 226)
    ELSE Goto(call_make_device(s, s.local.device_id, s.local.device_kind,
                               s.local.device_property, s.symbol.id),
              "sd_semicolon")

(* Line 232-239: the symbol after the parameters.                          *)
sd_semicolon(s) ==
    IF s.symbol.type # SEMICOLON /\ display_error(NO_SEMICOLON)
    THEN Raise(s, "SyntaxError", 236)
    ELSE Goto(SetLINE(s), "sd_end_check")

----------------------------------------------------------------------------
(* set_connections, connect, network_arrow_check, network_error_check.     *)

isnumeric(string) == string # <<>> /\ \A k \in DOMAIN string : isdigit(string[k])

(* network_error_check(error_check, position, connect_device, port_id,     *)
(* line_check), line 529-596.  connect_device is given by its id.          *)
network_error_check(s, error_check, position, connect_device_id, port_id, line_check) ==
    IF error_check = network_NO_ERROR THEN s
    ELSE IF error_check = network_DEVICE_ABSENT
    THEN call_error(Count(s), position, None, 539)
    ELSE IF error_check = network_OUTPUT_TO_OUTPUT
    THEN call_error(Count(s), position, line_check, 545)
    ELSE IF error_check = network_INPUT_CONNECTED
    THEN Count(s)
    ELSE IF error_check = network_PORT_ABSENT
    THEN IF ~has_device(s.devices_list, connect_device_id)
         THEN Raise(s, "AttributeError", 556)
         ELSE IF /\ port_id # None
                 /\ port_id \notin DOMAIN get_device(s.devices_list, connect_device_id).inputs
         THEN IF ~has_name(s.names, port_id) THEN Raise(s, "AttributeError", 559)
              ELSE IF port_id \in dtype_input_ids
              THEN call_error(Count(s), SEMANTIC, None, 568)
              ELSE IF isnumeric(s.names[port_id + 1])
              THEN s
              ELSE call_error(Count(s), SEMANTIC, None, 582)
         ELSE call_error(Count(s), SEMANTIC, None, 588)
    ELSE call_error(Count(s), SEMANTIC, None, 594)

(* Line 441-449 and 486-490: the head of connect's while loop, on the      *)
(* symbol in the destination position.                                     *)
co_loop(s) ==
    IF s.symbol.type # SEMICOLON
    THEN Goto([s EXCEPT !.local.connect_device_id = s.symbol.id,
                        !.parser.LINE = s.scanner.current_line,
                        !.parser.POSITION = s.scanner.current_position + 50],
              "co_dot_check")
    ELSE Goto(SetLINE(s), "sc_first_device_name")

(* A co_connect that checks the outcome of every make_connection call,     *)
(* also for a D-type source without a port.                                *)
co_connect_checks_every_call(s, port_id) ==
    LET first_device_id == s.local.first_device_id
        first_port_id == s.local.first_port_id
        connect_device_id == s.local.connect_device_id
        r == make_connection(s.devices_list, first_device_id, first_port_id,
                             connect_device_id, port_id)
        s1 == Log([s EXCEPT !.devices_list = r.devices_list, !.local.port_id = port_id],
                  "make_connection",
                  <<first_device_id, first_port_id, connect_device_id, port_id>>,
                  r.error_type)
        s2 == IF ~has_device(s1.devices_list, first_device_id)
              THEN Raise(s1, "AttributeError", 466)
              ELSE network_error_check(s1, r.error_type, s1.parser.POSITION,
                                       connect_device_id, port_id, s1.parser.LINE)
    IN  Then(s2, LAMBDA t :
          IF t.symbol.type = COMMA THEN Goto(t, "co_connect_device_name")
          ELSE IF t.symbol.type # SEMICOLON
          THEN Then(IF t.symbol.type = NAME
                    THEN call_error(t, NO_COMMA, None, 480)
                    ELSE call_error(t, NO_SEMICOLON, None, 482),
                    LAMBDA u : Diverge(u, 441))
          ELSE Goto(SetLINE(t), "sc_first_device_name"))

(* Line 460-485: the connection is made once the destination is read; the  *)
(* current symbol is comma_check.                                          *)
co_connect(s, port_id) ==
    LET first_device_id == s.local.first_device_id
        first_port_id == s.local.first_port_id
        connect_device_id == s.local.connect_device_id
        r == make_connection(s.devices_list, first_device_id, first_port_id,
                             connect_device_id, port_id)
        s1 == Log([s EXCEPT !.devices_list = r.devices_list, !.local.port_id = port_id],
                  "make_connection",
                  <<first_device_id, first_port_id, connect_device_id, port_id>>,
                  r.error_type)
        s2 == IF ~has_device(s1.devices_list, first_device_id)
              THEN Raise(s1, "AttributeError", 466)
              ELSE IF /\ get_device(s1.devices_list, first_device_id).device_kind = D_TYPE
                      /\ first_port_id = None
              THEN s1
              ELSE network_error_check(s1, r.error_type, s1.parser.POSITION,
                                       connect_device_id, port_id, s1.parser.LINE)
    IN  Then(s2, LAMBDA t :
          IF t.symbol.type = COMMA THEN Goto(t, "co_connect_device_name")
          ELSE IF t.symbol.type # SEMICOLON
          THEN Then(IF t.symbol.type = NAME
                    THEN call_error(t, NO_COMMA, None, 480)
                    ELSE call_error(t, NO_SEMICOLON, None, 482),
                    LAMBDA u : Diverge(u, 441))
          ELSE Goto(SetLINE(t), "sc_first_device_name"))

(* Line 450-459: the symbol after the destination device.                  *)
co_dot_check(s) ==
    IF s.symbol.type = DOT THEN Goto(s, "co_port") ELSE co_connect(s, None)

(* Line 454-456: the destination port, then the symbol after it.           *)
co_port(s) == Goto([s EXCEPT !.local.port_id = s.symbol.id], "co_comma_check")

co_comma_check(s) == co_connect(s, s.local.port_id)

(* A network_arrow_check that lets a '.' after the source pass uncounted.   *)
network_arrow_check_uncounted(s) ==
    IF s.symbol.type = ARROW THEN Goto(s, "sc_connect_device_name")
    ELSE IF s.symbol.type = DOT THEN Goto(s, "nac_outputcheck")
    ELSE Then(IF s.symbol.type = COMMA
              THEN call_error(s, INVALID_VARIABLE, None, 680)
              ELSE IF s.parser.MISSING = sMONITOR
              THEN call_error(s, INCORRECT_KEYWORD, s.parser.LINE + 1, 682)
              ELSE call_error(s, NO_CONNECT, None, 685),
              LAMBDA t : Goto(t, "sc_connect_device_name"))

(* network_arrow_check(first_device_id, arrow_check), line 653-685.        *)
network_arrow_check(s) ==
    IF s.symbol.type = ARROW THEN Goto(s, "sc_connect_device_name")
    ELSE IF s.symbol.type = DOT THEN Goto(Count(s), "nac_outputcheck")
    ELSE Then(IF s.symbol.type = COMMA
              THEN call_error(s, INVALID_VARIABLE, None, 680)
              ELSE IF s.parser.MISSING = sMONITOR
              THEN call_error(s, INCORRECT_KEYWORD, s.parser.LINE + 1, 682)
              ELSE call_error(s, NO_CONNECT, None, 685),
              LAMBDA t : Goto(t, "sc_connect_device_name"))

(* Line 660-677: the symbol after a stray '.', then the skip to the arrow  *)
(* (arrow_check is still the '.', so the loop reads at least one symbol).  *)
nac_outputcheck(s) ==
    Then(call_error(s, SEMANTIC, None, IF s.symbol.id \in dtype_output_ids THEN 664 ELSE 670),
         LAMBDA t : Goto(t, "nac_skip"))

nac_skip(s) ==
    IF s.symbol.type # ARROW THEN Goto(s, "nac_skip")
    ELSE Goto(s, "sc_connect_device_name")

(* Line 276-332: the head of set_connections' while loop, on the symbol in *)
(* the source position.                                                    *)
sc_loop(s) ==
    IF s.symbol.type # KEYWORD THEN
        LET first_device_id == s.symbol.id
            s1 == [s EXCEPT !.local.first_device_id = first_device_id]
        IN  IF ~has_device(s.devices_list, first_device_id) THEN
                IF first_device_id = None \/ ~has_name(s.names, first_device_id)
                THEN Raise(s1, "TypeError", 285)
                ELSE IF s1.symbol.type # SEMICOLON
                THEN Goto(Count(s1), "sc_skip")
                ELSE Goto(Count(s1), "sc_first_device_name")
            ELSE IF get_device(s.devices_list, first_device_id).device_kind # D_TYPE
            THEN Goto([s1 EXCEPT !.local.first_port_id = None], "sc_arrow_check")
            ELSE Goto(s1, "sc_dot_check")
    ELSE pn_monitor(s)

(* A skip that gives up after one symbol.                                  *)
sc_skip_one_symbol(s) == Goto(s, "sc_first_device_name")

(* Line 289-291: skip to the SEMICOLON that ends the entry.                *)
sc_skip(s) ==
    IF s.symbol.type # SEMICOLON THEN Goto(s, "sc_skip")
    ELSE Goto(s, "sc_first_device_name")

(* Line 306-320: a D-type source: the symbol after the device name.        *)
sc_dot_check(s) ==
    IF s.symbol.type = DOT THEN Goto(s, "sc_first_device_port")
    ELSE Then(network_error_check(s, SEMANTIC, None, None, None, None),
              LAMBDA t : Goto(t, "sc_arrow_check"))

(* Line 308-316: a D-type source's port.                                   *)
sc_first_device_port(s) ==
    IF s.symbol.id \notin dtype_output_ids
    THEN Then(network_error_check(s, network_PORT_ABSENT, None,
                                  s.local.first_device_id, None, None),
              LAMBDA t : Goto([t EXCEPT !.local.first_device_port_id = None],
                              "sc_arrow_check"))
    ELSE Goto([s EXCEPT !.local.first_device_port_id = s.symbol.id], "sc_arrow_check")

(* Line 298-301 and 323-326: the first destination; connect is called      *)
(* with None for a source that is no D-type, else with                     *)
(* first_device_port_id.                                                   *)
sc_connect_device_name(s) ==
    IF get_device(s.devices_list, s.local.first_device_id).device_kind # D_TYPE
    THEN co_loop([s EXCEPT !.local.first_port_id = None])
    ELSE IF s.local.first_device_port_id = Unbound
    THEN Raise(s, "UnboundLocalError", 324)
    ELSE co_loop([s EXCEPT !.local.first_port_id = s.local.first_device_port_id])

----------------------------------------------------------------------------
(* set_monitor, make_monitor, make_monitor_dtype and the checks that end   *)
(* the monitors section.                                                   *)

(* monitor_error_check(error_check), line 598-616.                         *)
monitor_error_check(s, error_check) ==
    IF error_check = monitors_NO_ERROR THEN s
    ELSE IF error_check = monitors_NOT_OUTPUT
    THEN call_error(Count(s), SEMANTIC, None, 604)
    ELSE IF error_check = network_DEVICE_ABSENT
    THEN call_error(Count(s), SEMANTIC, None, 609)
    ELSE IF error_check = monitors_MONITOR_PRESENT
    THEN call_error(Count(s), SEMANTIC, None, 614)
    ELSE s

(* self.monitors.make_monitor(device_id, output_id) followed by            *)
(* monitor_error_check on its outcome.                                     *)
call_make_monitor(s, device_id, output_id) ==
    LET r == make_monitor_call(s.devices_list, s.monitors_dictionary, device_id, output_id)
    IN  monitor_error_check(
            Log([s EXCEPT !.monitors_dictionary = r.monitors_dictionary],
                "make_monitor", <<device_id, output_id>>, r.error_type),
            r.error_type)

(* set_ground, line 618-629: the first id without a name string.           *)
set_ground(nm) == Len(nm)

(* set_dtype_input_values(GND), line 512-527: every unconnected input of   *)
(* every D-type device is connected to GND.                                *)
set_dtype_input_values(dl, GND) ==
    [i \in DOMAIN dl |->
        IF dl[i].device_kind = D_TYPE
        THEN [dl[i] EXCEPT !.inputs =
                 [p \in DOMAIN dl[i].inputs |->
                     IF dl[i].inputs[p] = Unconnected THEN <<GND, None>>
                     ELSE dl[i].inputs[p]]]
        ELSE dl[i]]

(* check_connection, line 492-510: the number of errors it adds, one per   *)
(* unconnected input of a device that is neither CLOCK nor SWITCH.         *)
floating_inputs(dl) ==
    UNION {{<<dl[i].device_id, p>> :
               p \in {q \in DOMAIN dl[i].inputs : dl[i].inputs[q] = Unconnected}} :
           i \in {j \in DOMAIN dl : dl[j].device_kind \notin {CLOCK, SWITCH}}}

(* A check_connection that sets error_count to the number of floating     *)
(* inputs instead of adding it.                                            *)
check_connection_recounts(s) ==
    [s EXCEPT !.parser.error_count = Cardinality(floating_inputs(s.devices_list))]

check_connection(s) ==
    [s EXCEPT !.parser.error_count = @ + Cardinality(floating_inputs(s.devices_list))]

(* A cleanup that looks for floating inputs before the ground is wired.    *)
sm_end_check_first(s) ==
    LET GND == set_ground(s.names)
        counted == check_connection(s)
        grounded == set_dtype_input_values(make_switch(s.devices_list, GND), GND)
    IN  pn_end([counted EXCEPT !.devices_list = grounded])

(* Line 355-359: the end of the monitors section.                          *)
sm_end(s) ==
    LET GND == set_ground(s.names)
        grounded == set_dtype_input_values(make_switch(s.devices_list, GND), GND)
    IN  pn_end(check_connection([s EXCEPT !.devices_list = grounded]))

(* Line 337-359: the head of set_monitor's while loop.                     *)
sm_loop(s) ==
    IF s.symbol.type = NAME THEN
        LET device_id == s.symbol.id
            s1 == [s EXCEPT !.local.device_id = device_id]
        IN  IF ~has_device(s.devices_list, device_id) THEN Goto(s1, "mm_dot_check")
            ELSE IF get_device(s.devices_list, device_id).device_kind # D_TYPE
            THEN Goto(s1, "mm_dot_check")
            ELSE Goto(s1, "mmd_dot_check")
    ELSE sm_end(s)

(* A for loop that gives up one symbol earlier.                            *)
mm_for_range_2(s, n) ==
    IF s.symbol.type # SEMICOLON
    THEN IF n < 1 THEN Goto([s EXCEPT !.local.n = n + 1], "mm_semicolon_check")
         ELSE Then(call_error(s, NO_SEMICOLON, s.parser.LINE, 406),
                   LAMBDA t : Goto(SetLINE(t), "sm_device_name"))
    ELSE Goto(SetLINE(s), "sm_device_name")

(* Line 399-408: iteration n of make_monitor's for loop, on the current    *)
(* symbol (semicolon_check); afterwards line 353-354 of set_monitor.       *)
mm_for(s, n) ==
    IF s.symbol.type # SEMICOLON
    THEN IF n < 2 THEN Goto([s EXCEPT !.local.n = n + 1], "mm_semicolon_check")
         ELSE Then(call_error(s, NO_SEMICOLON, s.parser.LINE, 406),
                   LAMBDA t : Goto(SetLINE(t), "sm_device_name"))
    ELSE Goto(SetLINE(s), "sm_device_name")

(* make_monitor(device_id), line 386-398: the symbol after the device.     *)
mm_dot_check(s) ==
    Then(IF s.symbol.type = DOT THEN monitor_error_check(s, monitors_NOT_OUTPUT) ELSE s,
         LAMBDA t :
           Then(call_make_monitor(t, t.local.device_id, None),
                LAMBDA u : mm_for(SetLINE(u), 0)))

mm_semicolon_check(s) == mm_for(s, s.local.n)

(* make_monitor_dtype(device_id), line 361-372: the symbol after a D-type  *)
(* device; without a '.', output is read before it is assigned.            *)
mmd_dot_check(s) ==
    IF s.symbol.type = DOT THEN Goto(s, "mmd_output")
    ELSE Then(monitor_error_check(s, monitors_NOT_OUTPUT),
              LAMBDA t : Raise(t, "UnboundLocalError", 372))

(* Line 369-381: the D-type output.                                        *)
mmd_output(s) ==
    Then(IF s.symbol.id \in dtype_output_ids
         THEN call_make_monitor(s, s.local.device_id, s.symbol.id)
         ELSE monitor_error_check(s, monitors_NOT_OUTPUT),
         LAMBDA t : Goto(SetLINE(t), "mmd_semicolon"))

(* Line 381-384, then line 353-354 of set_monitor.                         *)
mmd_semicolon(s) ==
    Then(IF s.symbol.type # SEMICOLON
         THEN call_error(s, NO_SEMICOLON, s.parser.LINE, 384) ELSE s,
         LAMBDA t : Goto(SetLINE(t), "sm_device_name"))

----------------------------------------------------------------------------
(* Source texts.                                                           *)
sp == <<" ">>
nl == <<"\n">>

(* Device names used in the texts.                                         *)
sA == <<"A">>
sB == <<"B">>
sG == <<"G">>
sS == <<"S">>
sU == <<"U">>
sX == <<"X">>
sK == <<"K">>
sN == <<"N">>
sDD == <<"D", "D">>
sFOO == <<"F", "O", "O">>

(* One declaration: NAME = KIND params ; newline.                          *)
Decl(name, kind, params) ==
    Cat(<<name, <<" ", "=", " ">>, kind, params, <<";", "\n">>>>)

(* ", n" as a parameter.                                                   *)
Par(n) == <<",", " ">> \o str(n)

(* DEVICES decls CONNECT conns MONITOR mons END, one keyword per line,     *)
(* followed by the given trailer.                                          *)
Text(decls, conns, mons, trailer) ==
    Cat(<<sDEVICES, nl, decls, sCONNECT, nl, conns, sMONITOR, nl, mons, sEND, trailer>>)

(* Bounds of the text families.                                            *)
MaxUnits == 2
MaxText == 3
MaxPosition == 24

(* Self-contained units of a well-formed circuit: a declaration, the       *)
(* connections that drive all its inputs, a monitor on its output.         *)
Unit(k) ==
    CASE k = 1 -> [decl |-> Decl(sS, sSWITCH, Par(0)), conn |-> <<>>,
                   mon |-> sS \o <<";", "\n">>]
      [] k = 2 -> [decl |-> Decl(sK, sCLOCK, Par(2)), conn |-> <<>>, mon |-> <<>>]
      [] k = 3 -> [decl |-> Decl(sDD, sDTYPE, <<>>), conn |-> <<>>,
                   mon |-> sDD \o <<".", "Q", ";", "\n">>]
      [] k = 4 -> [decl |-> Decl(sG, sNAND, Par(1)),
                   conn |-> sG \o <<" ", "-", ">", " ">> \o sG \o <<".", "I", "1", ";", "\n">>,
                   mon |-> sG \o <<";", "\n">>]
      [] k = 5 -> [decl |-> Decl(sX, sXOR, <<>>),
                   conn |-> Cat(<<sX, <<"-", ">">>, sX, <<".", "I", "1", ",", " ">>,
                                  sX, <<".", "I", "2", " ", ";", "\n">>>>),
                   mon |-> <<>>]
      [] k = 6 -> [decl |-> Decl(sN, sSIGGEN, Par(1) \o Par(2)), conn |-> <<>>,
                   mon |-> sN \o <<";", "\n">>]

UnitIds == {1, 2, 3, 4, 5, 6}

RECURSIVE UnitsText(_, _, _)
UnitsText(chosen, k, part) ==
    IF k \notin UnitIds THEN <<>>
    ELSE (IF k \in chosen THEN Unit(k)[part] ELSE <<>>) \o UnitsText(chosen, k + 1, part)

Trailers == {<<>>, nl, <<" ", "\n">>}

(* Texts that match the grammar, with no duplicate names, no dangling      *)
(* ports and no floating inputs: any choice of at most MaxUnits units.     *)
GrammarFiles ==
    {Text(UnitsText(chosen, 1, "decl"), UnitsText(chosen, 1, "conn"),
          UnitsText(chosen, 1, "mon"), trailer) :
        chosen \in {c \in SUBSET UnitIds : Cardinality(c) <= MaxUnits},
        trailer \in Trailers}

(* Declarations: one entry of every kind with every parameter form.       *)
MaxParam == 17

KindStrings == Range(gate_strings) \cup Range(device_strings) \cup {sFOO}

ParamForms ==
    {<<>>} \cup {Par(n) : n \in 0 .. MaxParam}
        \cup {Par(1) \o Par(2), Par(1) \o Par(2) \o Par(3), Par(1) \o <<",">>,
              <<",">>, <<",", " ">> \o sA, Par(1) \o <<" ", "2">>}

DeclFiles ==
    {Text(Decl(sA, kind, par), <<>>, <<>>, nl) : kind \in KindStrings, par \in ParamForms}

(* Declarations: the name of the first and of the second entry.            *)
DeclNames == reserved_strings \cup {sA, sB, <<"7">>, <<"A", "1">>}

WiresA == <<"A", " ", "-", ">", " ", "A", ".", "I", "1", ",", " ", "A", ".", "I", "2", ";", "\n">>

NameFiles ==
    {Text(Decl(w, sXOR, <<>>), <<>>, <<>>, nl) : w \in DeclNames}
        \cup {Text(Decl(sA, sXOR, <<>>) \o Decl(w, sXOR, <<>>), WiresA, <<>>, nl) :
                 w \in DeclNames}
        \cup {Text(Decl(sA, sXOR, <<>>) \o Cat(<<w, sp, sXOR, <<";", "\n">>>>),
                   WiresA, <<>>, nl) : w \in {sA, sB}}

(* Connections, over the devices S, G, DD and X.                           *)
Decls0 == <<"S", " ", "=", " ", "S", "W", "I", "T", "C", "H", ",", " ", "0", ";", "\n", "G", " ", "=", " ", "A", "N", "D", ",", " ", "2", ";", "\n", "D", "D", " ", "=", " ", "D", "T", "Y", "P", "E", ";", "\n", "X", " ", "=", " ", "X", "O", "R", ";", "\n">>

Sources ==
    {<<"S">>, <<"G">>, <<"X">>, <<"D", "D", ".", "Q">>,
     <<"D", "D", ".", "Q", "B", "A", "R">>, <<"D", "D">>,
     <<"D", "D", ".", "C", "L", "K">>, <<"D", "D", ".", "I", "1">>, <<"U">>,
     <<"G", ".", "I", "1">>, <<"X", ".", "Q">>, <<"7">>, <<"1">>, <<";">>,
     <<"E", "N", "D">>, <<"1", "9">>}

Arrows ==
    {<<" ", "-", ">", " ">>, <<"-", ">">>, <<" ", "=", " ">>, <<",", " ">>,
     <<" ", "-", " ">>, <<" ", ">", " ">>, <<" ", ".", " ">>, <<" ">>,
     <<" ", ";", " ">>}

Dests ==
    {<<"G", ".", "I", "1">>, <<"G", ".", "I", "2">>, <<"G", ".", "I", "3">>,
     <<"G">>, <<"D", "D", ".", "D", "A", "T", "A">>,
     <<"D", "D", ".", "C", "L", "K">>, <<"D", "D", ".", "Q">>,
     <<"U", ".", "I", "1">>, <<"X", ".", "I", "1">>, <<"S">>,
     <<"7", ".", "I", "1">>, <<"G", ".", "7">>, <<"G", ".", "9", "9">>,
     <<"2", "0", ".", "I", "1">>}

Tails ==
    {<<";">>, <<",", " ", "G", ".", "I", "2", ";">>,
     <<" ", "G", ".", "I", "2", ";">>, <<>>, <<",", " ", ";">>,
     <<".", " ", ";">>}

Conn(src, arrow, dest, tail) == Cat(<<src, arrow, dest, tail, nl>>)

(* Well-formed entries whose source is the D-type device DD with a port    *)
(* that is one of its outputs, or one that is not, and one destination or  *)
(* two.                                                                    *)
DTypeOutputs == {<<"D", "D", ".", "Q">>, <<"D", "D", ".", "Q", "B", "A", "R">>}

DTypeOtherPorts ==
    {<<"D", "D", ".", "C", "L", "K">>, <<"D", "D", ".", "I", "1">>,
     <<"D", "D", ".", "U">>}

DTypeDests ==
    {<<"G", ".", "I", "1">>, <<"U", ".", "I", "1">>, <<"G", ".", "9", "9">>,
     <<"D", "D", ".", "D", "A", "T", "A">>, <<"X", ".", "I", "2">>}

DTypeTails == {<<";">>, <<",", " ", "G", ".", "I", "2", ";">>}

DTypeEntriesOf(srcs) ==
    {Conn(src, <<" ", "-", ">", " ">>, dest, tail) :
        src \in srcs, dest \in DTypeDests, tail \in DTypeTails}

DTypeEntries == DTypeEntriesOf(DTypeOutputs \cup DTypeOtherPorts)

Mon0 == <<"G", ";", "\n">>

ConnEntries ==
    {Conn(src, <<" ", "-", ">", " ">>, <<"G", ".", "I", "1">>, <<";">>) : src \in Sources}
        \cup {Conn(sS, arrow, <<"G", ".", "I", "1">>, <<";">>) : arrow \in Arrows}
        \cup {Conn(src, <<" ", "-", ">", " ">>, dest, tail) :
                 src \in {sS, <<"D", "D", ".", "Q">>}, dest \in Dests, tail \in Tails}
        \cup {Conn(src, <<" ">>, <<"G", ".", "I", "2">>, tail) : src \in {sU, <<"G", ".", "I", "1">>}, tail \in Tails}
        \cup DTypeEntries

ConnPairs ==
    {<<"S", " ", "-", ">", " ", "G", ".", "I", "1", ";", "\n", "S", " ", "-", ">", " ", "G", ".", "I", "1", ";", "\n">>,
     <<"D", "D", ".", "Q", " ", "-", ">", " ", "G", ".", "I", "1", ";", "\n", "D", "D", " ", "-", ">", " ", "G", ".", "I", "2", ";", "\n">>,
     <<"S", " ", "-", ">", " ", "G", ".", "I", "1", ",", " ", "G", ".", "I", "2", ";", "\n", "X", " ", "-", ">", " ", "X", ".", "I", "1", ",", " ", "X", ".", "I", "2", ";", "\n">>,
     <<"D", "D", ".", "Q", "B", "A", "R", " ", "-", ">", " ", "D", "D", ".", "D", "A", "T", "A", ";", "\n", "S", " ", "-", ">", " ", "D", "D", ".", "C", "L", "K", ",", " ", "D", "D", ".", "S", "E", "T", ",", " ", "D", "D", ".", "C", "L", "E", "A", "R", ";", "\n">>,
     <<"U", " ", "-", ">", " ", "G", ".", "I", "1", ";", "\n", "S", " ", "-", ">", " ", "G", ".", "I", "2", ";", "\n">>,
     <<"G", ".", "I", "1", " ", "-", ">", " ", "G", ".", "I", "2", ";", "\n", "S", " ", "-", ">", " ", "G", ".", "I", "1", ";", "\n">>}

ConnFiles ==
    {Text(Decls0, e, mons, nl) : e \in ConnEntries \cup ConnPairs, mons \in {<<>>, Mon0}}

(* Monitors, over the same devices with every input driven.                *)
Wires0 == <<"S", " ", "-", ">", " ", "G", ".", "I", "1", ",", " ", "G", ".", "I", "2", ";", "\n", "S", " ", "-", ">", " ", "X", ".", "I", "1", ",", " ", "X", ".", "I", "2", ";", "\n">>

MonEntries ==
    {<<"G", ";">>, <<"S", ";">>, <<"X", ";">>, <<"D", "D", ".", "Q", ";">>,
     <<"D", "D", ".", "Q", "B", "A", "R", ";">>, <<"D", "D", ";">>,
     <<"D", "D", ".", "C", "L", "K", ";">>, <<"D", "D", ".", "Q">>,
     <<"D", "D", ".", " ", ";">>, <<"U", ";">>, <<"U", ".", "Q", ";">>,
     <<"G", ".", "I", "1", ";">>, <<"G">>, <<"G", " ", "G", ";">>,
     <<"G", " ", "G", " ", "G", ";">>, <<"G", " ", ",", " ", ";">>,
     <<"G", ".", "I", "1">>, <<"7", ";">>, <<";">>, <<"S", ".", "Q", ";">>,
     <<"G", ";", " ", "D", "D", ".", "Q", ";", " ", "S", ";">>}

Enders ==
    {<<"E", "N", "D", "\n">>, <<"E", "N", "D">>, <<"1", "8", "\n">>,
     <<"1", "8", "\n", "E", "N", "D", "\n">>,
     <<"3", "\n", "E", "N", "D", "\n">>,
     <<"M", "O", "N", "I", "T", "O", "R", "\n", "E", "N", "D", "\n">>,
     <<"D", "E", "V", "I", "C", "E", "S", "\n", "E", "N", "D", "\n">>,
     <<";", " ", "E", "N", "D", "\n">>, <<"S", ";", "\n">>,
     <<"E", "N", "D", ";", "\n">>}

MonFiles ==
    {Cat(<<sDEVICES, nl, Decls0, sCONNECT, nl, Wires0, sMONITOR, nl, e, nl, sEND, nl>>) :
        e \in MonEntries}
        \cup {Cat(<<sDEVICES, nl, Decls0, sCONNECT, nl, Wires0, sMONITOR, nl,
                    e1, nl, e2, nl, sEND, nl>>) :
                 e1 \in {<<"G", ";">>, <<"D", "D", ".", "Q", ";">>}, e2 \in MonEntries}
        \cup {Cat(<<sDEVICES, nl, Decls0, sCONNECT, nl, w, sMONITOR, nl,
                    <<"G", ";">>, nl, e>>) : e \in Enders, w \in {<<>>, Wires0}}

(* The four keywords, each present on a line of its own, followed by a tab *)
(* instead, glued to the ';' before it, or absent.                         *)
Keyword(k, mode) ==
    CASE mode = "line" -> keywords_list[k] \o nl
      [] mode = "tab" -> keywords_list[k] \o <<"\t">>
      [] mode = "glued" -> keywords_list[k] \o <<";", "\n">>
      [] mode = "absent" -> <<>>

Modes == {"line", "tab", "glued", "absent"}

KeywordFiles ==
    {Cat(<<Keyword(1, m[1]), <<"S", " ", "=", " ", "S", "W", "I", "T", "C", "H", ",", " ", "0", ";", "\n">>, Keyword(2, m[2]),
           Keyword(3, m[3]), <<"S", ";", "\n">>, Keyword(4, m[4])>>) : m \in [1 .. 4 -> Modes]}

(* Texts without the CONNECT keyword, so that a connection is read as a    *)
(* declaration: its source is a declared name, or an undeclared one        *)
(* followed by '->'.  MONITOR and END are present or not.                  *)
MissingConnectFiles ==
    {Cat(<<sDEVICES, nl, Decl(sS, sSWITCH, Par(0)), Decl(sG, sAND, Par(2)),
           src, <<" ", "-", ">", " ", "G", ".", "I", "1", ";", "\n">>,
           Keyword(3, m3), <<"G", ";", "\n">>, Keyword(4, m4)>>) :
        src \in {sS, sU}, m3 \in {"line", "glued", "absent"},
        m4 \in {"line", "glued", "absent"}}

(* Section keywords in every order, on one line or on lines of their own;  *)
(* DEVICES is followed by a declaration and MONITOR by a monitor entry.    *)
MaxKeywords == 3

RECURSIVE Sections(_, _)
Sections(ks, sep) ==
    IF ks = <<>> THEN <<>>
    ELSE Cat(<<keywords_list[Head(ks)], sep,
               CASE Head(ks) = 1 -> <<"S", " ", "=", " ", "S", "W", "I", "T", "C", "H", ",", " ", "0", ";">> \o sep
                 [] Head(ks) = 3 -> <<"S", ";">> \o sep
                 [] OTHER -> <<>>,
               Sections(Tail(ks), sep)>>)

OrderFiles ==
    {Sections(ks, sep) :
        ks \in UNION {[1 .. n -> 1 .. 4] : n \in 1 .. MaxKeywords}, sep \in {nl, sp}}
        \cup {Sections(<<1>> \o ks, sep) :
                 ks \in [1 .. MaxKeywords -> 2 .. 4], sep \in {nl, sp}}

(* A well-formed text with something slipped in before one of its tokens,  *)
(* and the same text cut short at every position.                          *)
Junk ==
    {<<"/">>, <<"/", "/", "C", "/", "/">>, <<"/", "/", "C">>,
     <<"/", "/", " ", "C", " ", "/", " ", "C", "\n", "/", "/">>, <<"@">>,
     <<"-">>, <<"/", "/", "A", "/", "/", " ", " ", "/", "/", "B", "/", "/">>,
     <<"\t">>, <<"-", ">">>, <<"/", "/">>}

Full == <<"D", "E", "V", "I", "C", "E", "S", "\n", "S", " ", "=", " ", "S", "W", "I", "T", "C", "H", ",", " ", "0", ";", "\n", "G", " ", "=", " ", "N", "A", "N", "D", ",", " ", "1", ";", "\n", "D", "D", " ", "=", " ", "D", "T", "Y", "P", "E", ";", "\n", "C", "O", "N", "N", "E", "C", "T", "\n", "D", "D", ".", "Q", " ", "-", ">", " ", "G", ".", "I", "1", ";", "\n", "U", " ", "-", ">", " ", "G", ".", "I", "1", ";", "\n", "S", ".", "Q", " ", "-", ">", " ", "D", "D", ".", "C", "L", "K", ";", "\n", "M", "O", "N", "I", "T", "O", "R", "\n", "G", ";", "\n", "D", "D", ".", "Q", ";", "\n", "E", "N", "D", "\n">>

Spliced == {SubSeq(Full, 1, k) \o j \o SubSeq(Full, k + 1, Len(Full)) :
               k \in {i \in 0 .. Len(Full) : i = 0 \/ isspace(Full[i])}, j \in Junk}

Truncated == {SubSeq(Full, 1, k) : k \in 0 .. Len(Full)}

ParserFiles ==
    GrammarFiles \cup DeclFiles \cup NameFiles \cup ConnFiles \cup MonFiles
        \cup KeywordFiles \cup MissingConnectFiles \cup OrderFiles \cup Spliced
        \cup Truncated

(* Texts for the scanner on its own: every text of at most MaxText         *)
(* characters over ScanChars, and every line of at most MaxText of the     *)
(* words below.                                                            *)
ScanChars == {"A", "1", " ", "\n", "/", "-", ">", ";", "@"}

ScanWords == {sDEVICES, sCONNECT, sMONITOR, sEND, sA, <<"X", "1">>, sAND}

RECURSIVE Words(_)
Words(ws) == IF ws = <<>> THEN <<>> ELSE Head(ws) \o sp \o Words(Tail(ws))

ScannerFiles ==
    UNION {[1 .. n -> ScanChars] : n \in 0 .. MaxText}
        \cup {Words(ws) : ws \in UNION {[1 .. n -> ScanWords] : n \in 1 .. MaxText}}

----------------------------------------------------------------------------
(* The run.                                                                *)

(* No symbol has been returned yet; no local variable is assigned.        *)
NoSymbol == [type |-> None, id |-> None, line_number |-> None, position |-> None]

NoLocals ==
    [device_id |-> None, device_kind |-> None, device_property |-> None,
     first_device_id |-> None, first_port_id |-> None,
     first_device_port_id |-> Unbound, connect_device_id |-> None,
     port_id |-> None, n |-> 0]

(* The control points of the parser, and the one of the scanner's own      *)
(* driver.                                                                 *)
ParserCalls ==
    {"pn_keyword", "pn_keyword_2", "sd_symbol", "sd_equal", "sd_device_kind",
     "sd_semicolon_check", "sd_device_property", "sd_comma_check",
     "sd_device_property_2", "sd_semicolon", "sd_end_check",
     "sc_first_device_name", "sc_skip", "sc_dot_check", "sc_first_device_port",
     "sc_arrow_check", "sc_connect_device_name", "co_dot_check", "co_port",
     "co_comma_check", "co_connect_device_name", "nac_outputcheck", "nac_skip",
     "sm_device_name", "mm_dot_check", "mm_semicolon_check", "mmd_dot_check",
     "mmd_output", "mmd_semicolon"}

(* The call at the control point has returned its symbol.                  *)
At(label) == pc = label /\ ~in_get_symbol

(* What one get_symbol call, whose result is r, does to the run.  A name   *)
(* is looked up in the name table (recorded in the history).  A            *)
(* SyntaxError (line 134, 148) leaves parse_network, which catches         *)
(* nothing.  A comment that is never closed keeps the call in the loop of  *)
(* skip_comments.  The scanner's own driver calls again until it is handed *)
(* the end of the file.                                                    *)
get_symbol_result(r) ==
    /\ scanner' = r.scanner
    /\ names' = r.names
    /\ symbol' = IF r.status = "ok" THEN r.symbol ELSE symbol
    /\ calls' = IF r.status = "ok" /\ r.name_string # <<>>
                THEN Append(calls, [op |-> "lookup", args |-> r.name_string,
                                    result |-> r.symbol.id])
                ELSE calls
    /\ pc' = CASE r.status = "SyntaxError" -> "done"
               [] r.status = "loops" -> "skip_comments"
               [] r.status = "ok" /\ pc = "scanner" /\ r.symbol.type = EOF -> "done"
               [] OTHER -> pc
    /\ in_get_symbol' =
           CASE r.status = "SyntaxError" -> FALSE
             [] r.status = "loops" -> TRUE
             [] OTHER -> pc = "scanner" /\ r.symbol.type # EOF
    /\ outcome' = IF r.status = "SyntaxError"
                  THEN [kind |-> "raised", exception |-> "SyntaxError", value |-> None,
                        line |-> IF r.scanner.f > 0 /\ file[r.scanner.f] = "-"
                                 THEN 134 ELSE 148,
                        of |-> "scanner.py"]
                  ELSE outcome
    /\ UNCHANGED <<file, devices_list, monitors_dictionary, parser, local>>

get_symbol_call ==
    /\ pc \in ParserCalls \cup {"scanner"}
    /\ in_get_symbol
    /\ get_symbol_result(get_symbol(scanner, names))

(* skip_comments line 178-179 at the end of the file: one more turn of the *)
(* loop that no closing pair ends.  The position counter is followed up to *)
(* MaxPosition.                                                            *)
skip_comments_advance ==
    /\ pc = "skip_comments"
    /\ scanner.current_position < MaxPosition
    /\ scanner' = advance(scanner)
    /\ UNCHANGED <<file, names, devices_list, monitors_dictionary, parser, local,
                   symbol, calls, pc, in_get_symbol, outcome>>

(* The scanner's own driver (test_scanner.py) positions the scanner with   *)
(* advance before its first get_symbol call.                               *)
scanner_advance ==
    /\ pc = "scanner"
    /\ symbol = NoSymbol
    /\ scanner.f < Len(file)
    /\ scanner' = advance(scanner)
    /\ UNCHANGED <<file, names, devices_list, monitors_dictionary, parser, local,
                   symbol, calls, pc, in_get_symbol, outcome>>

(* parse_network line 95-113: the keyword pre-scan, up to the first call.  *)
parse_network ==
    /\ At("parse_network")
    /\ Becomes(parse_network_prescan(Now, prescan(1, <<>>)))

(* Line 115-119.                                                           *)
pn_keyword == At("pn_keyword") /\ Becomes(pn_first(Now))

pn_keyword_2 == At("pn_keyword_2") /\ Becomes(pn_while(Now))

set_devices == At("sd_symbol") /\ Becomes(sd_loop(Now))

set_devices_equal == At("sd_equal") /\ Becomes(sd_equal(Now))

set_devices_device_kind ==
    At("sd_device_kind") /\ Becomes(sd_device_kind(Now))

set_devices_semicolon_check ==
    At("sd_semicolon_check") /\ Becomes(sd_semicolon_check(Now))

set_devices_device_property ==
    At("sd_device_property") /\ Becomes(sd_device_property(Now))

set_devices_comma_check ==
    At("sd_comma_check") /\ Becomes(sd_comma_check(Now))

set_devices_device_property_2 ==
    At("sd_device_property_2") /\ Becomes(sd_device_property_2(Now))

set_devices_semicolon == At("sd_semicolon") /\ Becomes(sd_semicolon(Now))

set_devices_end_check == At("sd_end_check") /\ Becomes(sd_end_check(Now))

set_connections == At("sc_first_device_name") /\ Becomes(sc_loop(Now))

set_connections_skip == At("sc_skip") /\ Becomes(sc_skip(Now))

set_connections_dot_check == At("sc_dot_check") /\ Becomes(sc_dot_check(Now))

set_connections_first_device_port ==
    At("sc_first_device_port") /\ Becomes(sc_first_device_port(Now))

set_connections_arrow_check ==
    At("sc_arrow_check") /\ Becomes(network_arrow_check(Now))

set_connections_connect_device_name ==
    At("sc_connect_device_name") /\ Becomes(sc_connect_device_name(Now))

network_arrow_check_outputcheck ==
    At("nac_outputcheck") /\ Becomes(nac_outputcheck(Now))

network_arrow_check_skip == At("nac_skip") /\ Becomes(nac_skip(Now))

connect_dot_check == At("co_dot_check") /\ Becomes(co_dot_check(Now))

connect_port == At("co_port") /\ Becomes(co_port(Now))

connect_comma_check == At("co_comma_check") /\ Becomes(co_comma_check(Now))

connect_connect_device_name ==
    At("co_connect_device_name") /\ Becomes(co_loop(Now))

set_monitor == At("sm_device_name") /\ Becomes(sm_loop(Now))

make_monitor == At("mm_dot_check") /\ Becomes(mm_dot_check(Now))

make_monitor_semicolon_check ==
    At("mm_semicolon_check") /\ Becomes(mm_semicolon_check(Now))

make_monitor_dtype == At("mmd_dot_check") /\ Becomes(mmd_dot_check(Now))

make_monitor_dtype_output == At("mmd_output") /\ Becomes(mmd_output(Now))

make_monitor_dtype_semicolon ==
    At("mmd_semicolon") /\ Becomes(mmd_semicolon(Now))

(* The parser as test_parser.py builds it (Names, Devices, Network,         *)
(* Monitors, then the Scanner, whose keywords come after the strings of    *)
(* Devices in the name table), or the scanner alone on a fresh name table  *)
(* as in test_scanner.py.                                                  *)
Init ==
    /\ \/ /\ file \in ParserFiles
          /\ pc = "parse_network"
          /\ in_get_symbol = FALSE
          /\ names = lookup(DevicesNames, keywords_list)
       \/ /\ file \in ScannerFiles
          /\ pc = "scanner"
          /\ in_get_symbol = TRUE
          /\ names = lookup(<<>>, keywords_list)
    /\ scanner = NewScanner
    /\ devices_list = <<>>
    /\ monitors_dictionary = {}
    /\ parser = [error_count |-> 0, LINE |-> 0, POSITION |-> 0, MISSING |-> <<>>]
    /\ local = NoLocals
    /\ symbol = NoSymbol
    /\ calls = <<>>
    /\ outcome = Running

Next ==
    \/ parse_network
    \/ pn_keyword
    \/ pn_keyword_2
    \/ set_devices
    \/ set_devices_equal
    \/ set_devices_device_kind
    \/ set_devices_semicolon_check
    \/ set_devices_device_property
    \/ set_devices_comma_check
    \/ set_devices_device_property_2
    \/ set_devices_semicolon
    \/ set_devices_end_check
    \/ set_connections
    \/ set_connections_skip
    \/ set_connections_dot_check
    \/ set_connections_first_device_port
    \/ set_connections_arrow_check
    \/ set_connections_connect_device_name
    \/ network_arrow_check_outputcheck
    \/ network_arrow_check_skip
    \/ connect_dot_check
    \/ connect_port
    \/ connect_comma_check
    \/ connect_connect_device_name
    \/ set_monitor
    \/ make_monitor
    \/ make_monitor_semicolon_check
    \/ make_monitor_dtype
    \/ make_monitor_dtype_output
    \/ make_monitor_dtype_semicolon
    \/ get_symbol_call
    \/ skip_comments_advance
    \/ scanner_advance

Spec == Init /\ [][Next]_vars

(* The run has a step to take: it has not ended, and the loop of           *)
(* skip_comments is followed no further than MaxPosition.                  *)
Runnable ==
    pc # "done" /\ (pc = "skip_comments" => scanner.current_position < MaxPosition)

(* Python runs the one thread of the parse without pause: a run that has a *)
(* step to take takes one.  This is weak fairness of Next, with the        *)
(* enabledness of Next written as the state predicate Runnable.            *)
FairSpec ==
    /\ Spec
    /\ WF_vars(skip_comments_advance)
    /\ ([]<>~Runnable \/ []<><<Next>>_vars)


----------------------------------------------------------------------------
(* Properties.                                                             *)

(* The run is a parse: the Scanner was built after Devices, so that its    *)
(* keywords follow the strings of Devices in the name table.               *)
ParserRun == DEVICES_ID = Len(DevicesNames)

(* parse_network has returned the success indicator.                       *)
Succeeded == pc = "done" /\ outcome.kind = "returned" /\ outcome.value = END_ID

(* An exception has left the run.                                          *)
Raised(exception) == outcome.kind = "raised" /\ outcome.exception = exception

(* The lines of set_devices in parse.py.                                   *)
set_devices_lines == 147 .. 272

(* The character get_symbol meets once skip_spaces is done, and the one    *)
(* after it.                                                               *)
PendingChar == skip_spaces(scanner).current_character

FollowingChar == advance(skip_spaces(scanner)).current_character

(* The alphanumeric run of the text that starts at read offset k.          *)
RunFrom(k) ==
    LET e == CHOOSE e \in k .. Len(file) :
                 /\ \A j \in k .. e : isalnum(file[j])
                 /\ (e = Len(file) \/ ~isalnum(file[e + 1]))
    IN  SubSeq(file, k, e)

PendingRun == RunFrom(skip_spaces(scanner).f)

(* The word stands free in the text: whitespace or the text's edge on both *)
(* sides.                                                                  *)
free_standing(word) ==
    \E k \in 0 .. Len(file) :
        /\ occurs_at(word, k)
        /\ (k = 0 \/ isspace(file[k]))
        /\ (k + Len(word) = Len(file) \/ isspace(file[k + Len(word) + 1]))

(* C1: every text that matches DEVICES decl* CONNECT conn* MONITOR mon*    *)
(* END (zero entries included, END followed by whitespace or not), without *)
(* duplicate names, dangling ports or floating inputs, makes parse_network *)
(* return the id of END with error_count 0.                                *)
C1_grammar_text_succeeds ==
    (pc = "done" /\ file \in GrammarFiles) => (Succeeded /\ parser.error_count = 0)

(* C2: when one of DEVICES, CONNECT, MONITOR, END does not stand free in   *)
(* the text, parse_network reports it (the marker MISSING is set, or an    *)
(* exception leaves) and does not return the success indicator.            *)
C2_missing_keyword_never_succeeds ==
    (/\ pc = "done"
     /\ ParserRun
     /\ \E k \in DOMAIN keywords_list : ~free_standing(keywords_list[k]))
        => ((parser.MISSING # <<>> \/ outcome.kind = "raised") /\ ~Succeeded)

(* parse_network is handed a section keyword where another is expected:    *)
(* its first token is not DEVICES, or the keyword that ends the            *)
(* declarations is not CONNECT.                                            *)
WrongFirstKeyword ==
    /\ At("pn_keyword") \/ At("pn_keyword_2")
    /\ symbol.type = KEYWORD
    /\ symbol.id # DEVICES_ID

WrongSecondKeyword ==
    At("sd_end_check") /\ symbol.type = KEYWORD /\ symbol.id # CONNECT_ID

MonitorsEnd == At("sm_device_name") /\ symbol.type # NAME

EndKeyword == symbol.type = KEYWORD /\ symbol.id = END_ID

(* C4: parse_network returns the success indicator only if the token that  *)
(* ended the monitors section is the END keyword and error_count is 0;     *)
(* with the END keyword and error_count > 0 it returns False.              *)
C4_success_only_after_END ==
    [][/\ (Succeeded' /\ ~Succeeded) =>
              (MonitorsEnd /\ EndKeyword /\ parser'.error_count = 0)
       /\ (MonitorsEnd /\ EndKeyword /\ parser'.error_count > 0) =>
              (pc' = "done" /\ outcome'.kind = "returned" /\ outcome'.value = False)]_vars

(* C5: parse_network terminates on every finite text, by a return or by an *)
(* exception.  Stated for the texts without "/", in which no comment       *)
(* opens.                                                                  *)
C5_parse_network_terminates ==
    (ParserRun /\ pc = "parse_network" /\ \A k \in DOMAIN file : file[k] # "/")
        ~> (pc = "done")

(* The character get_symbol meets is none it accepts: no letter, digit,    *)
(* = . , ; and neither the start of "->" nor of "//".                      *)
Unacceptable ==
    /\ PendingChar # ""
    /\ ~isalnum(PendingChar)
    /\ PendingChar \notin {"=", ".", ",", ";"}
    /\ ~(PendingChar = "-" /\ FollowingChar = ">")
    /\ ~(PendingChar = "/" /\ FollowingChar = "/")

(* C6: get_symbol raises SyntaxError for every character that is not       *)
(* whitespace, a letter, a digit, one of = . , ; the start of "->" or the  *)
(* start of "//"; none is consumed silently.                               *)
C6_unacceptable_character_raises ==
    [][(Unacceptable /\ get_symbol_call) =>
          (pc' = "done" /\ Raised("SyntaxError")' /\ outcome'.of = "scanner.py")]_vars

(* What C7 says of the token get_symbol returns for the run of letters and *)
(* digits it meets: KEYWORD for the four keywords and NAME otherwise, with *)
(* the id of the run in the name table; a run the table holds keeps its    *)
(* id and a new one is given the next id.                                  *)
NameToken(run) ==
    /\ symbol'.type = IF run \in Range(keywords_list) THEN KEYWORD ELSE NAME
    /\ symbol'.id = query(names', run)
    /\ IF \E k \in DOMAIN names : names[k] = run
       THEN names' = names
       ELSE names' = Append(names, run)

(* The four keywords hold the ids first .. first + 3.                      *)
KeywordIds(nm, first) ==
    \A k \in DOMAIN keywords_list : query(nm, keywords_list[k]) = first + k - 1

(* C7 as the code has it: the token is as NameToken says, and the keywords *)
(* hold the four ids the name table gave them when the Scanner was built:  *)
(* 0..3 only on a name table that was empty then, the ids after the        *)
(* strings of Devices in a parse.                                          *)
C7_name_token ==
    [][(isalpha(PendingChar) /\ get_symbol_call) =>
          /\ NameToken(PendingRun)
          /\ KeywordIds(names', IF ParserRun THEN Len(DevicesNames) ELSE 0)]_vars

(* On a fresh name table DEVICES has id 0 and the new name X1 id 4.        *)
C7_witness ==
    /\ ~ParserRun
    /\ Len(calls) = 2
    /\ calls[1].args = sDEVICES
    /\ calls[1].result = 0
    /\ calls[2].args = <<"X", "1">>
    /\ calls[2].result = 4
    /\ symbol.type = NAME
    /\ symbol.id = 4

(* C7 as stated: the token is as NameToken says and the four keywords hold *)
(* the ids 0..3.                                                           *)
C7_keywords_hold_0_to_3 ==
    [][(isalpha(PendingChar) /\ get_symbol_call) =>
          (NameToken(PendingRun) /\ KeywordIds(names', 0))]_vars

(* The domain of the one parameter of a kind.                              *)
InDomain(device_kind, device_property) ==
    CASE device_kind \in {AND, OR, NAND, NOR} -> device_property \in 1 .. 16
      [] device_kind = CLOCK -> device_property > 0
      [] device_kind = SWITCH -> device_property \in {0, 1}

(* C8: in the declarations a parameter outside its domain raises           *)
(* ValueError before make_device is called for the entry (no call, no      *)
(* device); a parameter inside it is accepted and the device is made.      *)
C8_parameter_domain ==
    [][(/\ At("sd_device_property")
        /\ symbol.type = NUMBER
        /\ local.device_kind \in {AND, OR, NAND, NOR, CLOCK, SWITCH}) =>
          IF InDomain(local.device_kind, symbol.id)
          THEN /\ outcome'.kind = "running"
               /\ pc' = "sd_semicolon"
               /\ calls' = Append(calls,
                      [op |-> "make_device",
                       args |-> <<local.device_id, local.device_kind, symbol.id, None>>,
                       result |-> None])
          ELSE /\ pc' = "done"
               /\ Raised("ValueError")'
               /\ calls' = calls
               /\ devices_list' = devices_list]_vars

(* A gate declared with 17 inputs has raised ValueError and made nothing.  *)
C8_witness ==
    /\ pc = "done"
    /\ Raised("ValueError")
    /\ local.device_kind \in {AND, OR, NAND, NOR}
    /\ symbol.type = NUMBER
    /\ symbol.id = 17
    /\ devices_list = <<>>

(* C9: the number of parameters must match the kind's arity, else a fatal  *)
(* error is raised and no device is made for the entry: ";" right after    *)
(* the type only for XOR and DTYPE, a parameter for XOR or DTYPE is fatal, *)
(* a second parameter only for the signal generator, which must have it.   *)
C9_arity ==
    [][/\ (/\ At("sd_semicolon_check")
           /\ symbol.type = SEMICOLON
           /\ local.device_kind \notin {XOR, D_TYPE}) =>
              (outcome'.kind = "raised" /\ devices_list' = devices_list)
       /\ (At("sd_device_property") /\ local.device_kind \in {XOR, D_TYPE}) =>
              (outcome'.kind = "raised" /\ devices_list' = devices_list)
       /\ (At("sd_comma_check") /\ symbol.type # COMMA) =>
              (outcome'.kind = "raised" /\ devices_list' = devices_list)
       /\ (At("sd_semicolon") /\ symbol.type = COMMA) =>
              (/\ outcome'.kind = "raised"
               /\ ~has_device(devices_list', local.device_id))]_vars

(* The token is where a declaration's name stands ("=" follows it) and is  *)
(* a reserved string or the name of a device declared before.              *)
BadDeclaredName ==
    /\ At("sd_symbol") \/ At("sd_end_check")
    /\ symbol.type \in {NAME, KEYWORD}
    /\ has_name(names, symbol.id)
    /\ get_symbol(scanner, names).symbol.type = EQUALS
    /\ \/ names[symbol.id + 1] \in reserved_strings
       \/ has_device(devices_list, symbol.id)

(* C10: with all four keywords present, a declared name that is a gate     *)
(* type, a device type, a D-type port, a section keyword or the name of a  *)
(* device declared before raises SyntaxError from set_devices, and no      *)
(* device is made or replaced.                                             *)
C10_bad_name_raises ==
    [][(BadDeclaredName /\ parser.MISSING = <<>>) =>
          /\ pc' = "done"
          /\ Raised("SyntaxError")'
          /\ outcome'.of = "parse.py"
          /\ outcome'.line \in set_devices_lines
          /\ devices_list' = devices_list]_vars

----------------------------------------------------------------------------
(* Declarations sections.                                                  *)

(* The names a well-formed entry declares in the texts.                    *)
EntryNames == {sA, sB, sG, sS, sX, sK, sN, sDD, <<"A", "1">>}

(* The well-formed forms of an entry's right-hand side: the kind, its      *)
(* string and the parameters the grammar gives it.                         *)
EntryForms ==
    {[kind |-> query(DevicesNames, ks), string |-> ks, p1 |-> n, p2 |-> None, par |-> Par(n)] :
        ks \in {sAND, sOR, sNAND, sNOR}, n \in 1 .. max_gate_inputs}
    \cup {[kind |-> CLOCK, string |-> sCLOCK, p1 |-> n, p2 |-> None, par |-> Par(n)] :
              n \in 1 .. MaxParam}
    \cup {[kind |-> SWITCH, string |-> sSWITCH, p1 |-> n, p2 |-> None, par |-> Par(n)] :
              n \in {0, 1}}
    \cup {[kind |-> query(DevicesNames, ks), string |-> ks, p1 |-> None, p2 |-> None,
           par |-> <<>>] : ks \in {sXOR, sDTYPE}}
    \cup {[kind |-> SIGGEN, string |-> sSIGGEN, p1 |-> 1, p2 |-> 2, par |-> Par(1) \o Par(2)]}

WellFormedEntries ==
    {[text |-> Decl(n, e.string, e.par), name |-> n, kind |-> e.kind,
      p1 |-> e.p1, p2 |-> e.p2] : n \in EntryNames, e \in EntryForms}

(* The offset at which the first section keyword after "DEVICES\n" stands  *)
(* (the end of the text when there is none), and that keyword.             *)
KeywordAt(k) == \E w \in Range(keywords_list) : occurs_at(w, k)

SectionEnd ==
    LET ends == {k \in 8 .. Len(file) : KeywordAt(k)} \cup {Len(file)}
    IN  CHOOSE k \in ends : \A m \in ends : k <= m

(* The text of the declarations section, cut into its lines.               *)
RECURSIVE lines_of(_)
lines_of(text) ==
    IF text = <<>> THEN <<>>
    ELSE IF \E k \in DOMAIN text : text[k] = "\n"
    THEN LET k == CHOOSE k \in DOMAIN text :
                      text[k] = "\n" /\ \A j \in 1 .. k - 1 : text[j] # "\n"
         IN  <<SubSeq(text, 1, k)>> \o lines_of(SubSeq(text, k + 1, Len(text)))
    ELSE <<text>>

DeclLines == lines_of(SubSeq(file, 9, SectionEnd))

(* The section holds well-formed entries only, one on a line, no name      *)
(* twice, and a section keyword follows them.                              *)
WellFormedTexts == {e.text : e \in WellFormedEntries}

EntryByText ==
    [t \in WellFormedTexts |-> CHOOSE e \in WellFormedEntries : e.text = t]

EntryOf(line) == EntryByText[line]

WellFormedSection ==
    /\ Len(file) >= 8
    /\ SubSeq(file, 1, 8) = sDEVICES \o nl
    /\ SectionEnd < Len(file)
    /\ LET lines == DeclLines
       IN  /\ lines # <<>>
           /\ \A i \in DOMAIN lines : lines[i] \in WellFormedTexts
           /\ LET entries == [i \in DOMAIN lines |-> EntryOf(lines[i]).name]
              IN  \A i, j \in DOMAIN lines : i # j => entries[i] # entries[j]

(* The device-creation calls among the calls made so far.                  *)
MadeDevices(cs) == SelectSeq(cs, LAMBDA c : c.op = "make_device")

(* The n-th device-creation call is the one the n-th entry asks for.       *)
CallOfEntry(nm, c, e) ==
    /\ has_name(nm, c.args[1])
    /\ nm[c.args[1] + 1] = e.name
    /\ c.args[2] = e.kind
    /\ c.args[3] = e.p1
    /\ c.args[4] = e.p2

CallsFollowEntries(nm, cs) ==
    LET made == MadeDevices(cs)
        lines == DeclLines
    IN  /\ Len(made) <= Len(lines)
        /\ \A i \in DOMAIN made : CallOfEntry(nm, made[i], EntryOf(lines[i]))

(* The step records a device-creation call.                                *)
MakesDevice ==
    /\ Len(calls') = Len(calls) + 1
    /\ calls'[Len(calls')].op = "make_device"

(* set_devices hands the keyword it met back to parse_network.             *)
SetDevicesReturns == At("sd_end_check") /\ symbol.type = KEYWORD

(* C11: over a declarations section of well-formed entries only,           *)
(* set_devices calls make_device once per entry, in source order, with the *)
(* declared name id, the kind and the parameters of the entry, and returns *)
(* the first KEYWORD token that follows the entries; a run that reaches    *)
(* set_devices does not end before set_devices has returned.               *)
C11_one_call_per_entry ==
    [][/\ (MakesDevice /\ WellFormedSection) => CallsFollowEntries(names', calls')
       /\ (SetDevicesReturns /\ WellFormedSection) =>
              /\ Len(MadeDevices(calls)) = Len(DeclLines)
              /\ CallsFollowEntries(names, calls)
              /\ occurs_at(names[symbol.id + 1], SectionEnd)
              /\ symbol' = symbol
       /\ (pc' = "done" /\ pc # "parse_network" /\ WellFormedSection) =>
              Len(MadeDevices(calls')) = Len(DeclLines)]_vars

(* set_devices has returned CONNECT after the four entries S, G, DD, X,    *)
(* each made by one call.                                                  *)
C11_witness ==
    /\ pc = "sc_first_device_name"
    /\ symbol.type = KEYWORD
    /\ symbol.id = CONNECT_ID
    /\ Len(devices_list) = 4
    /\ Len(MadeDevices(calls)) = 4
    /\ WellFormedSection
    /\ Len(DeclLines) = 4

----------------------------------------------------------------------------
(* Connections.                                                            *)

(* The last call recorded, and whether this step recorded a call of op.    *)
LastCall(cs) == cs[Len(cs)]

Called(op) ==
    /\ Len(calls') = Len(calls) + 1
    /\ LastCall(calls').op = op

(* connect has read a destination whole: the symbol is comma_check.        *)
DestinationRead ==
    \/ At("co_dot_check") /\ symbol.type # DOT
    \/ At("co_comma_check")

(* The source of the entry is a non-D-type device, or a D-type device with *)
(* one of its output ports.                                                *)
ValidSource ==
    /\ has_device(devices_list, local.first_device_id)
    /\ \/ get_device(devices_list, local.first_device_id).device_kind # D_TYPE
       \/ local.first_port_id \in dtype_output_ids

(* C12: with a valid source, make_connection is called exactly once for    *)
(* each destination read; an outcome other than NO_ERROR adds exactly one  *)
(* to error_count, success adds nothing, and with a ',' or ';' after the   *)
(* destination connect goes on to the next destination or entry.           *)
C12_one_error_per_failed_connection ==
    [][/\ Called("make_connection") => DestinationRead
       /\ (DestinationRead /\ ValidSource) =>
              /\ Called("make_connection")
              /\ LastCall(calls').args =
                     <<local.first_device_id, local.first_port_id,
                       local.connect_device_id,
                       IF pc = "co_comma_check" THEN local.port_id ELSE None>>
              /\ parser'.error_count = parser.error_count +
                     (IF LastCall(calls').result = network_NO_ERROR THEN 0 ELSE 1)
              /\ symbol.type = COMMA => pc' = "co_connect_device_name"
              /\ symbol.type = SEMICOLON => pc' = "sc_first_device_name"]_vars

(* The source of the entry is a declared device that is not a D-type.      *)
NonDTypeSource ==
    /\ has_device(devices_list, local.first_device_id)
    /\ get_device(devices_list, local.first_device_id).device_kind # D_TYPE

(* The next symbol of the text is the arrow.                               *)
ArrowPending == PendingChar = "-" /\ FollowingChar = ">"

(* C13: a '.' after a non-D-type source adds exactly one to error_count;   *)
(* the PORT after it is reported without a further count and without       *)
(* leaving the section, and the arrow that follows the PORT ends the skip: *)
(* set_connections goes on to read the destination of that same entry.     *)
C13_stray_qualifier_counted_once ==
    [][NonDTypeSource =>
          /\ (At("sc_arrow_check") /\ symbol.type = DOT) =>
                 /\ parser'.error_count = parser.error_count + 1
                 /\ pc' = "nac_outputcheck"
          /\ (At("nac_outputcheck") /\ symbol.type = NAME) =>
                 /\ parser'.error_count = parser.error_count
                 /\ pc' = "nac_skip"
          /\ (pc = "nac_skip" /\ in_get_symbol /\ ArrowPending) =>
                 /\ symbol'.type = ARROW
                 /\ pc' = "nac_skip"
                 /\ calls' = calls
          /\ (At("nac_skip") /\ symbol.type = ARROW) =>
                 /\ parser'.error_count = parser.error_count
                 /\ pc' = "sc_connect_device_name"]_vars

(* The skip after G.I1 has stopped at the arrow, one error counted.        *)
C13_witness ==
    /\ NonDTypeSource
    /\ At("nac_skip")
    /\ symbol.type = ARROW
    /\ parser.error_count = 1
    /\ calls # <<>>
    /\ LastCall(calls).op = "lookup"
    /\ LastCall(calls).args = <<"I", "1">>

(* The symbol in the source position is a name that no device carries.     *)
UndeclaredSource ==
    /\ At("sc_first_device_name")
    /\ symbol.type = NAME
    /\ ~has_device(devices_list, symbol.id)

(* C14: an entry whose source name is not a declared device adds exactly   *)
(* one to error_count; the symbols up to and including the SEMICOLON that  *)
(* ends the entry are read and dropped, with no connection call and no     *)
(* further count, and the symbol after that SEMICOLON is taken as the      *)
(* first of the next entry.                                                *)
C14_undeclared_source_skipped ==
    [][/\ UndeclaredSource =>
              /\ parser'.error_count = parser.error_count + 1
              /\ pc' = "sc_skip"
              /\ calls' = calls
       /\ pc = "sc_skip" => ~Called("make_connection")
       /\ (At("sc_skip") /\ symbol.type # SEMICOLON) =>
              /\ parser'.error_count = parser.error_count
              /\ pc' = "sc_skip"
       /\ (At("sc_skip") /\ symbol.type = SEMICOLON) =>
              /\ parser'.error_count = parser.error_count
              /\ pc' = "sc_first_device_name"
              /\ in_get_symbol']_vars

(* The skip after the undeclared source U has reached the SEMICOLON of its *)
(* entry: one error, no connection made.                                   *)
C14_witness ==
    /\ At("sc_skip")
    /\ symbol.type = SEMICOLON
    /\ parser.error_count = 1
    /\ has_name(names, local.first_device_id)
    /\ names[local.first_device_id + 1] = sU
    /\ \A i \in DOMAIN calls : calls[i].op # "make_connection"

(* The source of the entry is a declared device.                           *)
DeclaredSource == has_device(devices_list, local.first_device_id)

(* The step leaves parse_network by a SyntaxError.                         *)
RaisesSyntaxError ==
    /\ pc' = "done"
    /\ outcome'.kind = "raised"
    /\ outcome'.exception = "SyntaxError"

(* C15: in an entry with a declared source, a token other than ARROW or    *)
(* '.' in the arrow position, a lone '-' or '>' there, and a token other   *)
(* than ',' or ';' after a destination raise SyntaxError out of            *)
(* parse_network: a NAME after a destination as a missing comma, anything  *)
(* else as a missing semicolon.                                            *)
C15_malformed_connection_raises ==
    [][DeclaredSource =>
          /\ (At("sc_arrow_check") /\ symbol.type \notin {ARROW, DOT}) =>
                 RaisesSyntaxError
          /\ (/\ pc = "sc_arrow_check" /\ in_get_symbol
              /\ \/ PendingChar = "-" /\ FollowingChar # ">"
                 \/ PendingChar = ">") =>
                 RaisesSyntaxError
          /\ (DestinationRead /\ symbol.type \notin {COMMA, SEMICOLON}) =>
                 /\ RaisesSyntaxError
                 /\ outcome'.line = IF symbol.type = NAME THEN 480 ELSE 482]_vars

----------------------------------------------------------------------------
(* Monitors.                                                               *)

(* make_monitor is examining a symbol for the ';': the one after the       *)
(* device name (further symbol 0) or a further one.                        *)
SemicolonChecked == At("mm_dot_check") \/ At("mm_semicolon_check")

FurtherSymbols == IF pc = "mm_dot_check" THEN 0 ELSE local.n

(* C16: make_monitor looks for the ';' in the symbol after the device name *)
(* and in at most two further symbols: a SEMICOLON among these three ends  *)
(* the entry without a raise, and SyntaxError for the missing semicolon is *)
(* raised exactly when the third of them is reached and is no SEMICOLON.   *)
C16_semicolon_within_three_symbols ==
    [][SemicolonChecked =>
          /\ FurtherSymbols \in 0 .. 2
          /\ symbol.type = SEMICOLON =>
                 (pc' = "sm_device_name" /\ outcome'.kind = "running")
          /\ (symbol.type # SEMICOLON /\ FurtherSymbols < 2) =>
                 /\ pc' = "mm_semicolon_check"
                 /\ local'.n = FurtherSymbols + 1
                 /\ outcome'.kind = "running"
          /\ (symbol.type # SEMICOLON /\ FurtherSymbols = 2) =>
                 (RaisesSyntaxError /\ outcome'.line = 406)
          /\ (outcome'.kind = "raised" /\ outcome'.line = 406) =>
                 (symbol.type # SEMICOLON /\ FurtherSymbols = 2)]_vars

(* The SEMICOLON is the second further symbol, as in 'G G G;'.             *)
C16_witness ==
    /\ At("mm_semicolon_check")
    /\ local.n = 2
    /\ symbol.type = SEMICOLON
    /\ outcome.kind = "running"

(* set_monitor has met the symbol that ends the monitors section.          *)
MonitorsSectionEnds == At("sm_device_name") /\ symbol.type # NAME

(* The unconnected inputs of the devices that are neither CLOCK, SWITCH    *)
(* nor D-type.                                                             *)
OtherFloatingInputs(dl) ==
    {<<i, p>> \in UNION {{i} \X DOMAIN dl[i].inputs : i \in DOMAIN dl} :
        /\ dl[i].device_kind \notin {CLOCK, SWITCH, D_TYPE}
        /\ dl[i].inputs[p] = Unconnected}

(* C17: at the end of the monitors section a ground switch is created      *)
(* under the first unused id, every unconnected input of every D-type      *)
(* device is wired to it, no other device changes, and error_count grows   *)
(* by exactly the number of unconnected inputs of the devices that are     *)
(* neither CLOCK, SWITCH nor D-type: a D-type input is never counted.      *)
C17_ground_before_floating_check ==
    [][MonitorsSectionEnds =>
          LET GND == Len(names)
          IN  /\ ~has_device(devices_list, GND)
              /\ has_device(devices_list', GND)
              /\ get_device(devices_list', GND).device_kind = SWITCH
              /\ Len(devices_list') = Len(devices_list) + 1
              /\ \A i \in DOMAIN devices_list :
                     LET before == devices_list[i]
                         after == get_device(devices_list', before.device_id)
                     IN  IF before.device_kind = D_TYPE
                         THEN \A p \in DOMAIN before.inputs :
                                 after.inputs[p] =
                                     IF before.inputs[p] = Unconnected
                                     THEN <<GND, None>> ELSE before.inputs[p]
                         ELSE after = before
              /\ parser'.error_count =
                     parser.error_count + Cardinality(OtherFloatingInputs(devices_list))]_vars

(* The cleanup has run over S, G, DD and X with nothing connected: the     *)
(* four inputs of G and X are counted, the inputs of DD are grounded.      *)
C17_witness ==
    /\ pc = "done"
    /\ outcome.kind = "returned"
    /\ parser.error_count = 4
    /\ Len(devices_list) = 5
    /\ \E i \in DOMAIN devices_list :
           /\ devices_list[i].device_kind = D_TYPE
           /\ \A p \in DOMAIN devices_list[i].inputs :
                  devices_list[i].inputs[p] = <<Len(names), None>>
    /\ \A i \in DOMAIN calls : calls[i].op # "make_connection"

----------------------------------------------------------------------------
(* Comments.                                                               *)

(* The scanner stands on the first "/" of a comment that the text closes.  *)
ClosedCommentAt(sc) ==
    /\ sc.current_character = "/"
    /\ read1(sc) = "/"
    /\ \E k \in sc.f + 2 .. Len(file) - 1 : file[k] = "/" /\ file[k + 1] = "/"

(* A get_symbol call ends in a SyntaxError of the scanner.                 *)
GetSymbolRaises ==
    /\ in_get_symbol
    /\ pc' = "done"
    /\ outcome'.kind = "raised"
    /\ outcome'.of = "scanner.py"

(* C18: get_symbol skips every comment that stands where whitespace may    *)
(* stand, also a comment that follows another one: a call never ends in a  *)
(* SyntaxError with the scanner standing on the opening of a closed        *)
(* comment.                                                                *)
C18_comments_in_a_row_skipped ==
    [][GetSymbolRaises => ~ClosedCommentAt(scanner')]_vars

(* The scanner as it stands when the character at offset j of the text is  *)
(* the current one (j = Len(file) + 1: the end of the text has been read). *)
StandingAt(j) ==
    LET newlines == {m \in 1 .. j : m <= Len(file) /\ file[m] = "\n"}
        last == IF newlines = {} THEN 0
                ELSE CHOOSE m \in newlines : \A n \in newlines : n <= m
    IN  [current_character |-> IF j <= Len(file) THEN file[j] ELSE "",
         f |-> IF j <= Len(file) THEN j ELSE Len(file),
         current_line |-> Cardinality(newlines),
         current_position |-> j - last]

(* The offset of the first slash of the first pair "//" that stands        *)
(* behind the opening pair on which sc stands.                             *)
ClosingPair(sc) ==
    CHOOSE k \in sc.f + 2 .. Len(file) - 1 :
        /\ file[k] = "/" /\ file[k + 1] = "/"
        /\ \A m \in sc.f + 2 .. k - 1 : ~(file[m] = "/" /\ file[m + 1] = "/")

(* The offset of the first character behind offset k that is not           *)
(* whitespace (Len(file) + 1 when there is none).                          *)
FirstNonSpaceAfter(k) ==
    CHOOSE j \in k + 1 .. Len(file) + 1 :
        /\ j = Len(file) + 1 \/ ~isspace(file[j])
        /\ \A m \in k + 1 .. j - 1 : isspace(file[m])

(* A get_symbol call is due and, behind the whitespace, a closed comment   *)
(* is pending.                                                             *)
CommentPending ==
    /\ in_get_symbol
    /\ pc \in ParserCalls \cup {"scanner"}
    /\ ClosedCommentAt(skip_spaces(scanner))

(* C19: skip_comments leaves a comment at the first pair "//" behind the   *)
(* opening pair, whatever single slashes and newlines the comment holds,   *)
(* and stands on the first character behind that pair that is not          *)
(* whitespace.                                                             *)
C19_comment_ends_at_next_pair ==
    CommentPending =>
        skip_comments(skip_spaces(scanner)) =
            [scanner |->
                 StandingAt(FirstNonSpaceAfter(ClosingPair(skip_spaces(scanner)) + 1)),
             closed |-> TRUE]

(* The comment '// C / C', a newline, '//' at the head of the text has     *)
(* been skipped and the keyword behind it returned.                        *)
C19_witness ==
    /\ occurs_at(<<"/", "/", " ", "C", " ", "/", " ", "C", "\n", "/", "/">>, 0)
    /\ ~in_get_symbol
    /\ pc = "pn_keyword_2"
    /\ symbol.type = KEYWORD
    /\ symbol.id = DEVICES_ID
    /\ scanner.f = 19
    /\ scanner.current_line = 2

(* A get_symbol call is due and, behind the whitespace, a comment is       *)
(* pending that the text never closes.                                     *)
UnclosedCommentPending ==
    /\ in_get_symbol
    /\ pc \in ParserCalls \cup {"scanner"}
    /\ LET sc == skip_spaces(scanner)
       IN  /\ sc.current_character = "/"
           /\ read1(sc) = "/"
           /\ ~ClosedCommentAt(sc)

(* C20: a get_symbol call that meets a comment the text never closes       *)
(* comes back: with the EOF symbol once the end of the text is reached, or *)
(* with the scanner's SyntaxError.                                         *)
C20_unclosed_comment_returns ==
    [][UnclosedCommentPending =>
          \/ pc' # "skip_comments" /\ symbol'.type = EOF
          \/ GetSymbolRaises]_vars


----------------------------------------------------------------------------
(* The keyword pre-scan.                                                   *)

(* The step of parse_network that holds the pre-scan, line 95-113.         *)
PreScanStep == pc = "parse_network" /\ pc' # "parse_network"

(* C21: for every source text the keyword pre-scan ends without ending the *)
(* parse (the first get_symbol call follows it), and it finds keyword K    *)
(* missing exactly when K does not stand free in the text; the marker      *)
(* MISSING is left set exactly when some keyword does not stand free, and  *)
(* names one that does not.                                                *)
C21_prescan_marks_missing ==
    [][PreScanStep =>
          /\ pc' = "pn_keyword"
          /\ \A k \in DOMAIN keywords_list :
                 (keyword_check(keywords_list[k]) = "missing")
                     <=> ~free_standing(keywords_list[k])
          /\ (parser'.MISSING # <<>>)
                 <=> \E k \in DOMAIN keywords_list : ~free_standing(keywords_list[k])
          /\ parser'.MISSING # <<>> => ~free_standing(parser'.MISSING)]_vars


----------------------------------------------------------------------------
(* Declarations when a keyword is missing.                                 *)

(* The pre-scan found CONNECT missing, and MONITOR and END after it        *)
(* present: MISSING, which holds the last keyword found missing, is        *)
(* 'CONNECT'.                                                              *)
ConnectFoundMissing == keyword_check(sCONNECT) = "missing"

LaterKeywordsFound ==
    keyword_check(sMONITOR) = "found" /\ keyword_check(sEND) = "found"

(* set_devices is about to check a name that is already a device's (line   *)
(* 172), or a symbol after the name that is not '=' (line 182).            *)
DuplicateNameRead ==
    /\ At("sd_symbol") \/ At("sd_end_check")
    /\ symbol.type = NAME
    /\ names[symbol.id + 1] \notin reserved_strings
    /\ has_device(devices_list, symbol.id)

MissingEqualRead == At("sd_equal") /\ symbol.type # EQUALS

----------------------------------------------------------------------------
(* The order of the sections.                                              *)

(* The control points inside set_devices, inside set_connections (with     *)
(* connect and network_arrow_check) and inside set_monitor (with           *)
(* make_monitor and make_monitor_dtype).                                   *)
InSetDevices ==
    {"sd_symbol", "sd_equal", "sd_device_kind", "sd_semicolon_check",
     "sd_device_property", "sd_comma_check", "sd_device_property_2",
     "sd_semicolon", "sd_end_check"}

InSetConnections ==
    {"sc_first_device_name", "sc_skip", "sc_dot_check", "sc_first_device_port",
     "sc_arrow_check", "sc_connect_device_name", "co_dot_check", "co_port",
     "co_comma_check", "co_connect_device_name", "nac_outputcheck", "nac_skip"}

InSetMonitor ==
    {"sm_device_name", "mm_dot_check", "mm_semicolon_check", "mmd_dot_check",
     "mmd_output", "mmd_semicolon"}

(* The step invokes the sub-parser: control enters its code from outside.  *)
Invokes(labels) == pc \notin labels /\ pc' \in labels

(* The sub-parser returns: control leaves its code for parse_network's.    *)
Returns(labels) == pc \in labels /\ pc' \notin labels \cup {"done", "skip_comments"}

HandedBack(id) == symbol.type = KEYWORD /\ symbol.id = id

(* C23: in a run of parse_network set_devices is invoked only from         *)
(* parse_network's first keyword test, set_connections only from inside    *)
(* set_devices when it hands back the CONNECT keyword, set_monitor only    *)
(* from inside set_connections when it hands back the MONITOR keyword, and *)
(* control never returns from a later section to an earlier one: the three *)
(* are invoked in this order, each at most once.                           *)
C23_sections_in_order ==
    [][/\ Invokes(InSetDevices) =>
              pc \in {"pn_keyword", "pn_keyword_2"} /\ HandedBack(DEVICES_ID)
       /\ Invokes(InSetConnections) =>
              pc = "sd_end_check" /\ HandedBack(CONNECT_ID)
       /\ Invokes(InSetMonitor) =>
              pc = "sc_first_device_name" /\ HandedBack(MONITOR_ID)
       /\ Returns(InSetDevices) => pc' \in InSetConnections
       /\ Returns(InSetConnections) => pc' \in InSetMonitor
       /\ ~Returns(InSetMonitor)]_vars

(* set_monitor is at work after set_devices made two devices and           *)
(* set_connections a connection.                                           *)
C23_witness ==
    /\ At("mm_dot_check")
    /\ Len(devices_list) = 2
    /\ \E k \in DOMAIN calls : calls[k].op = "make_connection"
    /\ outcome.kind = "running"


----------------------------------------------------------------------------
(* Connections from a D-type device.                                       *)

(* The offset after the line 'CONNECT', and the first entry of the         *)
(* connections section: the text from there to the end of its line.        *)
ConnectionsStart == text_find(sCONNECT \o nl, 0) + Len(sCONNECT) + 1

FirstConnection ==
    IF text_find(sCONNECT \o nl, 0) < 0 THEN <<>>
    ELSE LET ends == {k \in ConnectionsStart + 1 .. Len(file) : file[k] = "\n"}
         IN  IF ends = {} THEN <<>>
             ELSE SubSeq(file, ConnectionsStart + 1,
                         CHOOSE k \in ends : \A m \in ends : k <= m)

(* The scanner stands in the first entry of the connections section.       *)
InFirstConnection ==
    /\ scanner.f > ConnectionsStart
    /\ scanner.f <= ConnectionsStart + Len(FirstConnection)

(* The number of destinations of the first entry: one more than its ','.   *)
Destinations ==
    1 + Cardinality({k \in DOMAIN FirstConnection : FirstConnection[k] = ","})

ConnectionsMade(cs) == SelectSeq(cs, LAMBDA c : c.op = "make_connection")

(* The step leaves connect: the entry has ended, or an exception has.      *)
ConnectEnds ==
    /\ pc \in {"co_dot_check", "co_comma_check", "co_connect_device_name"}
    /\ ~in_get_symbol
    /\ pc' \notin {"co_port", "co_comma_check", "co_connect_device_name",
                   "co_dot_check"}

(* C24: for a well-formed first entry whose source is the D-type device DD *)
(* with '.' and the port Q or QBAR, every make_connection call of the      *)
(* entry is passed DD's id and the port's id, and an entry that ends has   *)
(* had one call per destination;                                           *)
(* with '.' and another port name, error_count is 1 when the entry ends    *)
(* (one error, counted when the port was read), whether the entry has one  *)
(* destination or two, and the parse goes on with the next entry.          *)
C24_dtype_source_port ==
    [][/\ (DestinationRead /\ InFirstConnection
              /\ FirstConnection \in DTypeEntriesOf(DTypeOutputs)) =>
              /\ Len(calls') = Len(calls) + 1
              /\ LastCall(calls').op = "make_connection"
              /\ LastCall(calls').args[1] = query(names, sDD)
              /\ LastCall(calls').args[2] =
                     query(names, SubSeq(FirstConnection, 4,
                                         IF FirstConnection[5] = " " THEN 4 ELSE 7))
       /\ (ConnectEnds /\ pc' = "sc_first_device_name" /\ InFirstConnection
              /\ FirstConnection \in DTypeEntriesOf(DTypeOutputs)) =>
              Len(ConnectionsMade(calls')) = Destinations
       /\ (ConnectEnds /\ InFirstConnection
              /\ FirstConnection \in DTypeEntriesOf(DTypeOtherPorts)) =>
              /\ pc' = "sc_first_device_name"
              /\ outcome'.kind = "running"
              /\ parser'.error_count = 1
              /\ Len(ConnectionsMade(calls')) = Destinations]_vars

(* The entry 'DD.CLK -> U.I1, G.I2;' has ended with one error recorded     *)
(* after two make_connection calls; the next entry is about to be read.    *)
C24_witness ==
    /\ pc = "sc_first_device_name"
    /\ in_get_symbol
    /\ parser.error_count = 1
    /\ Len(ConnectionsMade(calls)) = 2
    /\ FirstConnection =
           Conn(<<"D", "D", ".", "C", "L", "K">>, <<" ", "-", ">", " ">>,
                <<"U", ".", "I", "1">>, <<",", " ", "G", ".", "I", "2", ";">>)
    /\ InFirstConnection


----------------------------------------------------------------------------
(* Monitors on a D-type device.                                            *)

(* make_monitor_dtype has read the symbol after the D-type device's name   *)
(* and it is no '.', or it has read the symbol after the '.'.              *)
QualifierAbsent == At("mmd_dot_check") /\ symbol.type # DOT

DTypePortRead == At("mmd_output")

ClassifiedErrors == {"SyntaxError", "ValueError"}

(* C25: in a monitor entry that names a D-type device, a '.' followed by   *)
(* Q or QBAR leaves the monitor registered for that device and port; a     *)
(* '.' followed by anything else, or no '.', increments error_count and    *)
(* registers nothing, and if the step ends the parse it does so with a     *)
(* classified error.                                                       *)
C25_dtype_monitor ==
    [][/\ (DTypePortRead /\ symbol.id \in dtype_output_ids) =>
              <<local.device_id, symbol.id>> \in monitors_dictionary'
       /\ ((DTypePortRead /\ symbol.id \notin dtype_output_ids) \/ QualifierAbsent) =>
              /\ parser'.error_count = parser.error_count + 1
              /\ monitors_dictionary' = monitors_dictionary
              /\ outcome'.kind = "raised" => outcome'.exception \in ClassifiedErrors]_vars


----------------------------------------------------------------------------
(* Monitors on a device that is no D-type, with a port.                    *)

(* The text the scanner has just read through ends with the word.          *)
PrecededBy(word) ==
    /\ scanner.f > Len(word)
    /\ SubSeq(file, scanner.f - Len(word), scanner.f - 1) = word

(* Entries NAME '.' PORT ';' on a declared device that is no D-type.       *)
QualifiedEntries == {<<"G", ".", "I", "1", ";">>, <<"S", ".", "Q", ";">>}

(* make_monitor has read the '.' of such an entry.                         *)
QualifierRead ==
    /\ At("mm_dot_check")
    /\ symbol.type = DOT
    /\ has_device(devices_list, local.device_id)
    /\ \E e \in QualifiedEntries : occurs_at(e, scanner.f - 3)

(* make_monitor's loop has read the ';' of such an entry.                  *)
QualifiedEntryRead ==
    /\ At("mm_semicolon_check")
    /\ symbol.type = SEMICOLON
    /\ \E e \in QualifiedEntries : PrecededBy(e)

(* C26: a monitor entry NAME '.' PORT ';' on a declared device that is no  *)
(* D-type records exactly one error (counted when the '.' is read, none    *)
(* while PORT and ';' are read), the section goes on, and the next entry   *)
(* is read from the token after the ';'.                                   *)
C26_exactly_one_error ==
    [][/\ QualifierRead =>
              /\ parser'.error_count = parser.error_count + 1
              /\ pc' = "mm_semicolon_check"
       /\ QualifiedEntryRead =>
              /\ parser'.error_count = parser.error_count
              /\ pc' = "sm_device_name"
              /\ in_get_symbol'
              /\ scanner' = scanner]_vars


----------------------------------------------------------------------------
(* The error counter.                                                      *)

(* C27: error_count is 0 when parse_network starts, and no step of the     *)
(* parse decreases it: every step leaves it unchanged or increases it,     *)
(* and a step that ends the parse with an exception keeps what had been    *)
(* counted before it.                                                      *)
C27_error_count_never_decreases ==
    /\ parser.error_count = 0
    /\ [][/\ parser'.error_count >= parser.error_count
          /\ pc = "parse_network" => parser.error_count = 0]_vars

(* An exception has ended a parse in which two errors had been recorded.   *)
C27_witness ==
    /\ pc = "done"
    /\ outcome.kind = "raised"
    /\ parser.error_count = 2


----------------------------------------------------------------------------
(* The end of the input.                                                   *)

(* get_symbol, called now, meets the end of the file once skip_spaces and  *)
(* skip_comments are done.                                                 *)
EndOfInputSeen(sc) ==
    /\ skip_comments(skip_spaces(sc)).closed
    /\ skip_comments(skip_spaces(sc)).scanner.current_character = ""

(* C28: a get_symbol call on the scanner as constructed (nothing consumed, *)
(* line 0, position 0) returns a token without a type, advances and        *)
(* changes nothing else; a call that meets the end of the file after a     *)
(* character has been consumed returns an EOF token and leaves the scanner *)
(* where the next call meets the end of the file again; parse_network      *)
(* reads over a first token without a type, and its second token always    *)
(* has one and goes to the keyword test.                                   *)
C28_end_of_input ==
    [][/\ (get_symbol_call /\ scanner = NewScanner) =>
              /\ symbol'.type = None
              /\ scanner' = advance(scanner)
              /\ <<pc, calls, names, outcome>>' = <<pc, calls, names, outcome>>
       /\ (get_symbol_call /\ scanner.f > 0 /\ EndOfInputSeen(scanner)) =>
              /\ symbol'.type = EOF
              /\ outcome'.kind = "running"
              /\ scanner'.f > 0
              /\ EndOfInputSeen(scanner')
       /\ (At("pn_keyword") /\ symbol.type = None) =>
              (pc' = "pn_keyword_2" /\ in_get_symbol')
       /\ At("pn_keyword_2") =>
              (symbol.type # None /\ pc' \notin {"pn_keyword", "pn_keyword_2"})]_vars

(* The skip to the ';' of set_connections has been handed EOF at the end   *)
(* of a text: it calls get_symbol again and is handed EOF again.           *)
C28_witness ==
    /\ At("sc_skip")
    /\ symbol.type = EOF
    /\ scanner.f = Len(file)
    /\ scanner.f > 0
    /\ EndOfInputSeen(scanner)


----------------------------------------------------------------------------
(* Line and column.                                                        *)

(* The offsets of the newlines read so far (the current character is the   *)
(* last one read), and the number of characters read so far, the end of    *)
(* the file counted as one once read(1) has returned it.                   *)
NewlinesRead == {k \in 1 .. scanner.f : file[k] = "\n"}

CharactersRead ==
    IF scanner.current_character = "" /\ scanner # NewScanner
    THEN scanner.f + 1 ELSE scanner.f

LastNewlineRead ==
    IF NewlinesRead = {} THEN 0
    ELSE CHOOSE k \in NewlinesRead : \A m \in NewlinesRead : m <= k

(* C29: in every reachable state of the scanner current_line is the number *)
(* of newlines read so far, and current_position is the column of the      *)
(* current character: its distance from the last newline read (0 for a     *)
(* newline itself), or from the start of the text on the first line; the   *)
(* end of the file, once reached, stands one column after the last         *)
(* character.                                                              *)
C29_line_and_column ==
    /\ scanner.current_line = Cardinality(NewlinesRead)
    /\ scanner.current_position = CharactersRead - LastNewlineRead


----------------------------------------------------------------------------
(* Tokens in a device position.                                            *)

(* set_connections has read the token in the source position of an entry,  *)
(* or connect the token in a destination position.                         *)
SourceRead == At("sc_first_device_name")

DestinationDeviceRead ==
    (At("sc_connect_device_name") \/ At("co_connect_device_name"))
        /\ pc' = "co_dot_check"

(* C30: in the connections section a NUMBER or EOF token in the source or  *)
(* in a destination position is not taken for a declared device: the id    *)
(* the parser looks up for it is no device's, a source is not carried on   *)
(* to the arrow check, and the connection made for a destination is not    *)
(* one to a device.                                                        *)
C30_only_names_resolve ==
    [][/\ (SourceRead /\ symbol.type \in {NUMBER, EOF}) =>
              /\ ~has_device(devices_list, symbol.id)
              /\ pc' \notin {"sc_arrow_check", "sc_dot_check"}
       /\ (DestinationDeviceRead /\ symbol.type \in {NUMBER, EOF}) =>
              ~has_device(devices_list, local'.connect_device_id)]_vars

============================================================================
